---- MODULE Spec2Model ----
(***************************************************************************)
(* Model of the journal-monitor ingestion pipeline:                        *)
(*   src/src/database.py        Database (dedup and store)                 *)
(*   src/src/summarizer.py      Summarizer (keyword classifier, LLM gate)  *)
(*   src/src/openalex.py        enrichment, re-classification, translation *)
(*   src/src/semantic_scholar.py second enrichment provider                *)
(*   src/main.py                JournalMonitor.run (the orchestrator)      *)
(*                                                                         *)
(* Texts are sequences of one-character strings, so that substring         *)
(* matching, lower-casing, the 'title|url' identity key and the            *)
(* 50-character abstract threshold are computed as the code computes them. *)
(***************************************************************************)
EXTENDS Integers, Sequences, FiniteSets, TLC

VARIABLES
    articles,           \* the articles table, in rowid order (id = index)
    journals,           \* the journals table: names, in rowid order
    pc,                 \* position of the running command
    run,                \* locals of the running JournalMonitor.run call
    runs_done,          \* number of finished orchestrator runs
    last_run,           \* what the last finished run collected and returned
    oa_log,             \* OpenAlex lookups of the last OpenAlex stage: id -> reply
    ss_log,             \* Semantic Scholar lookups of the last stage: id -> reply
    llm_log,            \* language-model calls of the last translation gate: id -> reply
    responded,          \* ids whose translate call obtained a response in an earlier gate
    cmds_done,          \* number of finished maintenance commands
    last_cmd,           \* the last maintenance command and what it returned
    priority_keywords,  \* Summarizer.priority_keywords
    cp_in,              \* arguments of the last _check_priority call
    cp_out,             \* its result
    cp_again,           \* result of calling it again with the same arguments
    sel,                \* result of the last enrichment eligibility query
    opml,               \* the subscription document RSSParser was built from
    feeds,              \* RSSParser.feeds, the feed registry
    fetched             \* the last fetch_all_feeds call: its world and its result

vars == <<articles, journals, pc, run, runs_done, last_run, oa_log, ss_log,
          llm_log, responded, cmds_done, last_cmd, priority_keywords,
          cp_in, cp_out, cp_again, sel, opml, feeds, fetched>>

----------------------------------------------------------------------------
(* Bounds of the model *)

MaxRuns == 2            \* orchestrator runs per behaviour
MaxCmds == 1            \* maintenance commands per behaviour
MaxTitleLen == 1        \* classifier inputs drawn by SpecClassify
MaxAbstractLen == 2
MaxKeywords == 2        \* keywords per tier drawn by SpecClassify
MaxRows == 2            \* rows of the stores drawn by SpecSelect

(* Program constants *)

MIN_ABSTRACT_LEN == 50  \* LENGTH(abstract) < 50 / len(abstract) >= 50
SS_LIMIT == 50          \* fetch_abstracts_from_semantic_scholar(self.db, limit=50)
ABSTRACT_LIMIT == 50    \* --abstract-limit, default=50

----------------------------------------------------------------------------
(* Values *)

NULL == <<"NULL">>      \* SQL NULL and Python None
EMPTY == <<>>           \* the empty string ''

Range(s) == {s[i] : i \in 1..Len(s)}

SeqsUpTo(S, n) == UNION {[1..k -> S] : k \in 0..n}

Pad(n, c) == [i \in 1..n |-> c]

(* str.lower() on the characters the model uses *)
LowerChar(c) ==
    CASE c = "A" -> "a"
      [] c = "B" -> "b"
      [] c = "F" -> "f"
      [] c = "R" -> "r"
      [] OTHER -> c

Lower(s) == [i \in 1..Len(s) |-> LowerChar(s[i])]

(* Python's `needle in text` on strings *)
Contains(text, needle) ==
    \E i \in 1..(Len(text) - Len(needle) + 1) :
        SubSeq(text, i, i + Len(needle) - 1) = needle

----------------------------------------------------------------------------
(* Summarizer._check_priority *)

(* the keywords of one tier that occur in the text, in list order *)
ScanTier(keywords, text) ==
    SelectSeq(keywords, LAMBDA kw : Contains(text, Lower(kw)))

(* _check_priority that goes on to the medium tier after a high match *)
check_priority_both_tiers(kws, title, abstract) ==
    LET text == Lower(title \o <<" ">> \o abstract)
        high == ScanTier(kws.high, text)
        medium == ScanTier(kws.medium, text)
    IN  IF high # <<>> THEN [priority |-> "high", keywords |-> high \o medium]
        ELSE IF medium # <<>> THEN [priority |-> "medium", keywords |-> medium]
        ELSE [priority |-> "normal", keywords |-> <<>>]

check_priority(kws, title, abstract) ==
    LET text == Lower(title \o <<" ">> \o abstract)
        high == ScanTier(kws.high, text)
        medium == ScanTier(kws.medium, text)
    IN  IF high # <<>> THEN [priority |-> "high", keywords |-> high]
        ELSE IF medium # <<>> THEN [priority |-> "medium", keywords |-> medium]
        ELSE [priority |-> "normal", keywords |-> <<>>]

----------------------------------------------------------------------------
(* Database *)

(* dict.get(key, default) on an article dictionary *)
Get(d, key, default) == IF key \in DOMAIN d THEN d[key] ELSE default

(* Python truthiness of a string, list or None *)
Truthy(x) == x # NULL /\ x # EMPTY

(* Database.generate_hash: md5 of f"{title}|{url}"; md5 is taken as      *)
(* injective on its input, so the digest is represented by that input.   *)
generate_hash(title, url) == title \o <<"|">> \o url

(* Database.article_exists *)
(* article_exists answering "no" whatever the table holds *)
article_exists_never(store, article_hash) == FALSE

article_exists(store, article_hash) ==
    \E i \in 1..Len(store) : store[i].hash = article_hash

(* json.dumps of a keyword list, and json.loads of the stored text *)
JsonDumps(list) == <<"json">> \o list
JsonLoads(text) == Tail(text)
JSON_EMPTY_LIST == JsonDumps(<<>>)      \* the text '[]'

(* json.dumps(keywords) if keywords else None *)
KeywordsJson(keywords) ==
    IF keywords # <<>> THEN JsonDumps(keywords) ELSE NULL

(* insert_article as INSERT OR REPLACE: a hit on an existing hash writes *)
(* the columns of the stored row again                                   *)
insert_article_replacing(store, article, now) ==
    LET article_hash == generate_hash(Get(article, "title", EMPTY),
                                      Get(article, "url", EMPTY))
    IN  IF article_exists(store, article_hash)
        THEN LET hit == CHOOSE k \in 1..Len(store) :
                           store[k].hash = article_hash
             IN  [store |-> [store EXCEPT
                                ![hit].abstract = Get(article, "abstract", NULL),
                                ![hit].doi = Get(article, "doi", NULL),
                                ![hit].priority =
                                    Get(article, "priority", "normal"),
                                ![hit].fetched_at = now],
                  id |-> 0]
        ELSE [store |-> Append(store,
                  [id |-> Len(store) + 1,
                   journal_id |-> Get(article, "journal_id", NULL),
                   title |-> Get(article, "title", NULL),
                   title_ko |-> Get(article, "title_ko", NULL),
                   abstract |-> Get(article, "abstract", NULL),
                   abstract_ko |-> Get(article, "abstract_ko", NULL),
                   summary_ko |-> Get(article, "summary_ko", NULL),
                   url |-> Get(article, "url", NULL),
                   doi |-> Get(article, "doi", NULL),
                   fetched_at |-> now,
                   hash |-> article_hash,
                   priority |-> Get(article, "priority", "normal"),
                   keywords_matched |->
                       KeywordsJson(Get(article, "keywords_matched", <<>>))]),
              id |-> Len(store) + 1]

(* Database.insert_article: the store after the call and the returned id *)
(* (0 stands for None: rowids start at 1)                                 *)
insert_article(store, article, now) ==
    LET article_hash == generate_hash(Get(article, "title", EMPTY),
                                      Get(article, "url", EMPTY))
    IN  IF article_exists(store, article_hash)
        THEN [store |-> store, id |-> 0]           \* None
        ELSE [store |-> Append(store,
                  [id |-> Len(store) + 1,
                   journal_id |-> Get(article, "journal_id", NULL),
                   title |-> Get(article, "title", NULL),
                   title_ko |-> Get(article, "title_ko", NULL),
                   abstract |-> Get(article, "abstract", NULL),
                   abstract_ko |-> Get(article, "abstract_ko", NULL),
                   summary_ko |-> Get(article, "summary_ko", NULL),
                   url |-> Get(article, "url", NULL),
                   doi |-> Get(article, "doi", NULL),
                   fetched_at |-> now,
                   hash |-> article_hash,
                   priority |-> Get(article, "priority", "normal"),
                   keywords_matched |->
                       KeywordsJson(Get(article, "keywords_matched", <<>>))]),
              id |-> Len(store) + 1]

(* Database.get_or_create_journal: the table after the call and the id *)
get_or_create_journal(table, name) ==
    IF \E i \in 1..Len(table) : table[i] = name
    THEN [table |-> table,
          id |-> CHOOSE i \in 1..Len(table) : table[i] = name]
    ELSE [table |-> Append(table, name), id |-> Len(table) + 1]

(* Database.update_article_abstract *)
update_article_abstract(store, article_id, abstract, abstract_ko, summary_ko) ==
    IF Truthy(abstract_ko) /\ Truthy(summary_ko)
    THEN [store EXCEPT ![article_id].abstract = abstract,
                       ![article_id].abstract_ko = abstract_ko,
                       ![article_id].summary_ko = summary_ko]
    ELSE [store EXCEPT ![article_id].abstract = abstract]

(* Database.update_article_priority *)
(* update_article_priority writing the priority column only *)
update_article_priority_only(store, article_id, priority, keywords_matched) ==
    [store EXCEPT ![article_id].priority = priority]

update_article_priority(store, article_id, priority, keywords_matched) ==
    [store EXCEPT ![article_id].priority = priority,
                  ![article_id].keywords_matched = KeywordsJson(keywords_matched)]

(* Database.update_article_translation *)
update_article_translation(store, article_id, title_ko, abstract_ko, summary_ko) ==
    [store EXCEPT ![article_id].title_ko = title_ko,
                  ![article_id].abstract_ko = abstract_ko,
                  ![article_id].summary_ko = summary_ko]

(* SQL: x IS NULL OR LENGTH(x) < 50 *)
NullOrShort(x) == x = NULL \/ Len(x) < MIN_ABSTRACT_LEN

(* SQL: x IS NOT NULL AND LENGTH(x) >= 50 *)
UsableAbstract(x) == x # NULL /\ Len(x) >= MIN_ABSTRACT_LEN

(* SQL: doi IS NOT NULL AND doi != '' *)
HasDoi(row) == row.doi # NULL /\ row.doi # EMPTY

(* the WHERE clause of Database.get_articles_without_abstract and of       *)
(* get_abstract_stats()['can_fetch_from_openalex']                         *)
WithoutAbstract(row) == HasDoi(row) /\ NullOrShort(row.abstract)

Ids(store, P(_)) == {i \in 1..Len(store) : P(store[i])}

(* Database.get_abstract_stats()['can_fetch_from_openalex'] *)
can_fetch_from_openalex(store) == Cardinality(Ids(store, WithoutAbstract))

Min2(a, b) == IF a < b THEN a ELSE b

(* the subsets of S with k elements, each as the range of a one-to-one *)
(* sequence of length k                                                 *)
KSubsets(S, k) ==
    {Range(f) : f \in {g \in [1..k -> S] : Cardinality(Range(g)) = k}}

(* LIMIT ? on a result set: the sets of rows a query may return, as the *)
(* eligible rows less the ones the limit cuts off                       *)
Limited(eligible, limit) ==
    {eligible \ cut :
        cut \in KSubsets(eligible, Cardinality(eligible)
                                      - Min2(limit, Cardinality(eligible)))}

(* Database.get_articles_without_abstract: ORDER BY fetched_at DESC LIMIT ?; *)
(* the possible result sets (rows fetched in the same second tie)            *)
get_articles_without_abstract(store, limit) ==
    LET eligible == Ids(store, WithoutAbstract)
    IN  {S \in Limited(eligible, limit) :
            \A i \in S, j \in eligible \ S :
               store[i].fetched_at >= store[j].fetched_at}

(* the WHERE clause without its LENGTH(abstract) < 50 alternative *)
SemanticScholarEligible_empty_only(row) ==
    /\ (row.abstract = NULL \/ row.abstract = EMPTY)
    /\ row.doi # NULL /\ row.doi # EMPTY

(* the WHERE clause without any condition on the abstract *)
SemanticScholarEligible_any_doi(row) == row.doi # NULL /\ row.doi # EMPTY

(* the WHERE clause of fetch_abstracts_from_semantic_scholar *)
SemanticScholarEligible(row) ==
    /\ (row.abstract = NULL \/ row.abstract = EMPTY
            \/ Len(row.abstract) < MIN_ABSTRACT_LEN)
    /\ row.doi # NULL /\ row.doi # EMPTY

(* the SELECT of fetch_abstracts_from_semantic_scholar: LIMIT ? with no *)
(* ORDER BY, so any rows of the eligible ones                            *)
semantic_scholar_select(store, limit) ==
    LET eligible == Ids(store, SemanticScholarEligible)
    IN  Limited(eligible, limit)

----------------------------------------------------------------------------
(* Summarizer: the language-model gate.  A response text is a sequence of *)
(* lines; the three section headers stand for the bracketed Korean labels *)
(* of the prompt.                                                          *)

HDR_TITLE == "[title_ko]"
HDR_ABSTRACT == "[abstract_ko]"
HDR_SUMMARY == "[summary_ko]"
BRACKET_LINE == "[1] note"          \* a content line that starts with '['
BLANK == ""

StartsWithBracket(line) ==
    line \in {HDR_TITLE, HDR_ABSTRACT, HDR_SUMMARY, BRACKET_LINE}

SetMin(S) == CHOOSE m \in S : \A n \in S : m <= n
SetMax(S) == CHOOSE m \in S : \A n \in S : m >= n

(* str.strip() on a block of lines: leading and trailing blank lines go *)
Strip(lines) ==
    LET full == {i \in 1..Len(lines) : lines[i] # BLANK}
    IN  IF full = {} THEN <<>> ELSE SubSeq(lines, SetMin(full), SetMax(full))

(* re.search(r'\[header\]\s*\n(.+?)(?=\n\[|\Z)', text, re.DOTALL) followed  *)
(* by group(1).strip(): the block starts at the first non-blank line after  *)
(* the first header line and runs up to the next line that starts with '['  *)
Section(lines, header) ==
    LET n == Len(lines)
        at == {i \in 1..n : lines[i] = header}
    IN  IF at = {} THEN <<>>
        ELSE LET i == SetMin(at)
                 full == {j \in (i + 1)..n : lines[j] # BLANK}
             IN  IF full = {} THEN <<>>
                 ELSE LET j == SetMin(full)
                          m == SetMin({k \in j..n :
                                   k = n \/ StartsWithBracket(lines[k + 1])})
                      IN  Strip(SubSeq(lines, j, m))

(* Summarizer._parse_response *)
(* _parse_response giving up unless all three sections are present *)
parse_response_all_or_nothing(response_text) ==
    LET title_ko == Section(response_text, HDR_TITLE)
        abstract_ko == Section(response_text, HDR_ABSTRACT)
        summary_ko == Section(response_text, HDR_SUMMARY)
        complete == title_ko # EMPTY /\ abstract_ko # EMPTY /\ summary_ko # EMPTY
    IN  [title_ko |-> IF complete THEN title_ko ELSE EMPTY,
         abstract_ko |-> IF complete THEN abstract_ko ELSE EMPTY,
         summary_ko |-> IF complete THEN summary_ko ELSE EMPTY,
         priority |-> "normal",
         keywords_matched |-> <<>>]

parse_response(response_text) ==
    [title_ko |-> Section(response_text, HDR_TITLE),
     abstract_ko |-> Section(response_text, HDR_ABSTRACT),
     summary_ko |-> Section(response_text, HDR_SUMMARY),
     priority |-> "normal",
     keywords_matched |-> <<>>]

TRANSLATION_FAILED == <<"(translation failed)">>
SUMMARY_FAILED == <<"(summary failed)">>
NO_ABSTRACT == <<"(no abstract)">>
TITLE_KO == <<"title in Korean">>

(* Summarizer._translate_title: the translation, or the title itself when *)
(* the call fails                                                          *)
translate_title(title, reply) ==
    IF reply.title_call = "raise" THEN title ELSE TITLE_KO

(* Summarizer.translate_and_summarize under a given behaviour of the API: *)
(* reply.api is "raise" or "ok" (with reply.text), reply.title_call is    *)
(* the outcome of the title-only call of the fall-back                    *)
translate_and_summarize(kws, article, reply) ==
    LET title == Get(article, "title", EMPTY)
        abstract == Get(article, "abstract", EMPTY)
        checked == check_priority(kws, title, abstract)
    IN  IF ~Truthy(abstract) \/ Len(abstract) < MIN_ABSTRACT_LEN
        THEN [title_ko |-> translate_title(title, reply),
              abstract_ko |-> EMPTY,
              summary_ko |-> NO_ABSTRACT,
              priority |-> checked.priority,
              keywords_matched |-> checked.keywords]
        ELSE IF reply.api = "raise"
        THEN [title_ko |-> translate_title(title, reply),
              abstract_ko |-> TRANSLATION_FAILED,
              summary_ko |-> SUMMARY_FAILED,
              priority |-> checked.priority,
              keywords_matched |-> checked.keywords]
        ELSE [parse_response(reply.text) EXCEPT
                  !.priority = checked.priority,
                  !.keywords_matched = checked.keywords]

----------------------------------------------------------------------------
(* The batch loops of the pipeline, each under a given behaviour of the   *)
(* outside world: replies maps the id of every selected article to what   *)
(* the provider or the language model answers for it.                     *)

(* the loop body writing the priority of result whatever it is *)
fetch_missing_step_unguarded(store, id, work, translate, kws, reply) ==
    IF work # NULL /\ Truthy(work) /\ Len(work) >= MIN_ABSTRACT_LEN
    THEN IF translate
         THEN LET result == translate_and_summarize(kws,
                                [title |-> store[id].title, abstract |-> work],
                                reply)
                  updated == update_article_abstract(store, id, work,
                                 result.abstract_ko, result.summary_ko)
              IN  update_article_priority(updated, id, result.priority,
                                          result.keywords_matched)
         ELSE update_article_abstract(store, id, work, NULL, NULL)
    ELSE store

(* the body of the loop of fetch_missing_abstracts for one article;       *)
(* work is None (404, 429, any error) or the reconstructed abstract       *)
fetch_missing_step(store, id, work, translate, kws, reply) ==
    IF work # NULL /\ Truthy(work) /\ Len(work) >= MIN_ABSTRACT_LEN
    THEN IF translate
         THEN LET result == translate_and_summarize(kws,
                                [title |-> store[id].title, abstract |-> work],
                                reply)
                  updated == update_article_abstract(store, id, work,
                                 result.abstract_ko, result.summary_ko)
              IN  IF result.priority # "normal"
                  THEN update_article_priority(updated, id, result.priority,
                                               result.keywords_matched)
                  ELSE updated
         ELSE update_article_abstract(store, id, work, NULL, NULL)
    ELSE store

(* the loop of fetch_missing_abstracts: the body runs once for each      *)
(* selected row, reads and writes that row only                          *)
fetch_missing_loop(store, todo, works, translate, kws, replies) ==
    [i \in 1..Len(store) |->
        IF i \in todo
        THEN fetch_missing_step(store, i, works[i], translate, kws,
                                replies[i])[i]
        ELSE store[i]]

(* the body of the loop of fetch_abstracts_from_semantic_scholar *)
semantic_scholar_step(store, id, paper) ==
    IF paper # NULL /\ Truthy(paper) /\ Len(paper) >= MIN_ABSTRACT_LEN
    THEN update_article_abstract(store, id, paper, NULL, NULL)
    ELSE store

(* the loop of fetch_abstracts_from_semantic_scholar: the body runs once *)
(* for each selected row, reads and writes that row only                 *)
semantic_scholar_loop(store, todo, papers) ==
    [i \in 1..Len(store) |->
        IF i \in todo
        THEN semantic_scholar_step(store, i, papers[i])[i]
        ELSE store[i]]

(* the WHERE clause without its condition on the length of the abstract *)
RecheckEligible_any_length(row) ==
    /\ row.abstract # NULL
    /\ (row.keywords_matched = NULL \/ row.keywords_matched = JSON_EMPTY_LIST)

(* the WHERE clause of recheck_priorities *)
RecheckEligible(row) ==
    /\ UsableAbstract(row.abstract)
    /\ (row.keywords_matched = NULL \/ row.keywords_matched = JSON_EMPTY_LIST)

(* article['x'] or '' *)
OrEmpty(x) == IF Truthy(x) THEN x ELSE EMPTY

(* the body of the loop of recheck_priorities *)
recheck_step(store, id, kws) ==
    LET checked == check_priority(kws, OrEmpty(store[id].title),
                                  OrEmpty(store[id].abstract))
    IN  IF checked.keywords # <<>>
        THEN update_article_priority(store, id, checked.priority,
                                     checked.keywords)
        ELSE store

RECURSIVE recheck_loop(_, _, _)
recheck_loop(store, todo, kws) ==
    IF todo = {} THEN store
    ELSE LET id == SetMin(todo)
         IN  recheck_loop(recheck_step(store, id, kws), todo \ {id}, kws)

(* recheck_priorities *)
recheck_priorities(store, kws) ==
    recheck_loop(store, Ids(store, RecheckEligible), kws)

(* what recheck_priorities returns: (rechecked, high_count, medium_count) *)
recheck_counts(store, kws) ==
    LET hits == {id \in Ids(store, RecheckEligible) :
                    check_priority(kws, OrEmpty(store[id].title),
                                   OrEmpty(store[id].abstract)).keywords # <<>>}
        tier(p) == {id \in hits :
                       check_priority(kws, OrEmpty(store[id].title),
                                      OrEmpty(store[id].abstract)).priority = p}
    IN  <<Cardinality(hits), Cardinality(tier("high")),
          Cardinality(tier("medium"))>>

(* the WHERE clause without its condition on the priority *)
TranslateEligible_any_tier(row, priorities) ==
    /\ UsableAbstract(row.abstract)
    /\ (row.abstract_ko = NULL \/ row.abstract_ko = EMPTY
           \/ row.summary_ko = NULL \/ row.summary_ko = EMPTY)

(* the WHERE clause of translate_priority_articles *)
TranslateEligible(row, priorities) ==
    /\ row.priority \in priorities
    /\ UsableAbstract(row.abstract)
    /\ (row.abstract_ko = NULL \/ row.abstract_ko = EMPTY
            \/ row.summary_ko = NULL \/ row.summary_ko = EMPTY)

translate_select(store, priorities) ==
    {i \in 1..Len(store) : TranslateEligible(store[i], priorities)}

(* the body of the loop of translate_priority_articles: the except branch *)
(* is not reached by an API error, which translate_and_summarize catches  *)
translate_step(store, id, kws, reply) ==
    LET result == translate_and_summarize(kws,
                      [id |-> id, title |-> store[id].title,
                       abstract |-> store[id].abstract,
                       priority |-> store[id].priority], reply)
    IN  update_article_translation(store, id, result.title_ko,
                                   result.abstract_ko, result.summary_ko)

RECURSIVE translate_loop(_, _, _, _)
translate_loop(store, todo, kws, replies) ==
    IF todo = {} THEN store
    ELSE LET id == SetMin(todo)
         IN  translate_loop(translate_step(store, id, kws, replies[id]),
                            todo \ {id}, kws, replies)

----------------------------------------------------------------------------
(* The outside world of the pipeline model *)

T_RENT == <<"R", "e", "n", "t">>
K_FOUCAULT == <<"f", "o", "u", "c", "a", "u", "l", "t">>
K_DELEUZE == <<"d", "e", "l", "e", "u", "z", "e">>
K_RENT == <<"r", "e", "n", "t">>
K_STATE == <<"s", "t", "a", "t", "e">>

(* Summarizer.__init__: priority_keywords (a sub-list of each tier, in the *)
(* order of the source)                                                    *)
DefaultKeywords ==
    [high |-> <<K_FOUCAULT, K_DELEUZE>>, medium |-> <<K_RENT, K_STATE>>]

SHORT_PLAIN == Pad(MIN_ABSTRACT_LEN - 1, "x")
SHORT_HIGH == K_FOUCAULT \o Pad(MIN_ABSTRACT_LEN - 1 - Len(K_FOUCAULT), "x")
LONG_PLAIN == Pad(MIN_ABSTRACT_LEN, "x")
LONG_HIGH == K_FOUCAULT \o Pad(MIN_ABSTRACT_LEN - Len(K_FOUCAULT), "x")
LONG_STATE == K_STATE \o Pad(MIN_ABSTRACT_LEN - Len(K_STATE), "x")

(* article records as RSSParser.fetch_feed builds them.  The first two   *)
(* have different (title, url) pairs with the same 'title|url' text.     *)
ENTRY_SHORT ==
    [title |-> T_RENT, url |-> <<"u", "|", "v">>, abstract |-> SHORT_HIGH,
     doi |-> <<"d", "2">>, journal_name |-> "J1"]
ENTRY_NO_DOI ==
    [title |-> T_RENT \o <<"|", "u">>, url |-> <<"v">>, abstract |-> LONG_STATE,
     doi |-> NULL, journal_name |-> "J2"]
ENTRY_BARE ==
    [title |-> <<"x">>, url |-> <<"w">>, abstract |-> EMPTY,
     doi |-> <<"d", "4">>, journal_name |-> "J2"]

FeedEntries == {ENTRY_SHORT, ENTRY_NO_DOI, ENTRY_BARE}

(* what fetch_all_feeds may collect in one run *)
Feeds ==
    { <<>>, <<ENTRY_SHORT>>, <<ENTRY_NO_DOI>>, <<ENTRY_BARE>>,
      <<ENTRY_SHORT, ENTRY_NO_DOI>> }

(* what a bibliographic provider answers for a DOI: nothing (None), or an *)
(* abstract                                                               *)
OpenAlexReplies == {NULL, SHORT_PLAIN, LONG_HIGH}
SemanticScholarReplies == {NULL, LONG_PLAIN}

RESPONSE_FULL ==
    <<HDR_TITLE, "T", BLANK, HDR_ABSTRACT, "A", BLANK, HDR_SUMMARY, "S">>
RESPONSE_NO_SUMMARY == <<HDR_TITLE, "T", BLANK, HDR_ABSTRACT, "A">>

(* what the language-model API does for one article *)
LLMReplies ==
    { [api |-> "raise", title_call |-> "raise", text |-> <<>>],
      [api |-> "ok", title_call |-> "ok", text |-> RESPONSE_FULL],
      [api |-> "ok", title_call |-> "ok", text |-> RESPONSE_NO_SUMMARY] }

(* how a command is invoked: the translate argument, and whether           *)
(* ANTHROPIC_API_KEY is set, so that _init_components builds a Summarizer  *)
RunFlags ==
    { [translate |-> TRUE, has_key |-> TRUE],
      [translate |-> FALSE, has_key |-> TRUE],
      [translate |-> TRUE, has_key |-> FALSE] }

NoReply == [api |-> "none", title_call |-> "none", text |-> <<>>]

----------------------------------------------------------------------------
(* JournalMonitor.run, stage by stage *)

IdleRun ==
    [collected |-> <<>>, articles |-> <<>>, translate |-> FALSE,
     summarizer |-> FALSE, results |-> <<>>, new_count |-> 0,
     rows_before |-> 0]

NoLog == <<>>

(* a batch of up to MaxBatch rows gets every combination of replies; a    *)
(* larger one gets one reply for the rows up to a cut and None after it   *)
MaxBatch == 3

ProviderReplies(selected, replies) ==
    IF Cardinality(selected) <= MaxBatch
    THEN [selected -> replies]
    ELSE {[id \in selected |-> IF id <= cut THEN reply ELSE NULL] :
             cut \in {0, SetMin(selected), SetMax(selected)},
             reply \in replies}

(* stage 2 of run: the loop that classifies the collected articles *)
classify_collected(collected, kws) ==
    [i \in 1..Len(collected) |->
        LET checked == check_priority(kws, Get(collected[i], "title", EMPTY),
                                      Get(collected[i], "abstract", EMPTY))
        IN  ("priority" :> checked.priority)
            @@ ("keywords_matched" :> checked.keywords)
            @@ collected[i]]

(* stage 3 of run: the loop that stores the collected articles; the state  *)
(* is the two tables, the ids insert_article returned and new_count        *)
RECURSIVE persist_loop(_, _, _, _)
persist_loop(state, list, i, now) ==
    IF i > Len(list) THEN state
    ELSE LET journal == get_or_create_journal(state.journals,
                            Get(list[i], "journal_name", "Unknown"))
             article == ("journal_id" :> journal.id) @@ list[i]
             inserted == insert_article(state.store, article, now)
         IN  persist_loop(
                 [store |-> inserted.store,
                  journals |-> journal.table,
                  results |-> Append(state.results, inserted.id),
                  new_count |-> IF inserted.id # 0
                                THEN state.new_count + 1
                                ELSE state.new_count],
                 list, i + 1, now)

(* stage 1: the feeds are fetched; nothing collected ends the run *)
RunExtract ==
    /\ pc = "idle"
    /\ runs_done < MaxRuns
    /\ \E collected \in Feeds,
          flags \in RunFlags :
          IF collected = <<>>
          THEN /\ runs_done' = runs_done + 1
               /\ last_run' = [collected |-> collected,
                               unchanged |-> collected = last_run.collected,
                               total |-> 0, new |-> 0, rows_added |-> 0,
                               stats |-> <<>>]
               /\ UNCHANGED <<pc, run>>
          ELSE /\ pc' = "extracted"
               /\ run' = [IdleRun EXCEPT !.collected = collected,
                                         !.articles = collected,
                                         !.translate = flags.translate,
                                         !.summarizer = flags.has_key,
                                         !.rows_before = Len(articles)]
               /\ UNCHANGED <<runs_done, last_run>>
    /\ oa_log' = NoLog
    /\ ss_log' = NoLog
    /\ llm_log' = NoLog
    /\ UNCHANGED <<articles, journals, responded>>
    /\ UNCHANGED <<cmds_done, last_cmd>>
    /\ UNCHANGED <<priority_keywords, cp_in, cp_out, cp_again, sel>>
    /\ UNCHANGED <<opml, feeds, fetched>>

(* stage 2: keyword classification of the collected articles *)
RunClassify ==
    /\ pc = "extracted"
    /\ pc' = "classified"
    /\ run' = [run EXCEPT !.articles =
                  IF run.summarizer
                  THEN classify_collected(run.articles, priority_keywords)
                  ELSE run.articles]
    /\ UNCHANGED <<articles, journals, runs_done, last_run, oa_log, ss_log,
                   llm_log, responded>>
    /\ UNCHANGED <<cmds_done, last_cmd>>
    /\ UNCHANGED <<priority_keywords, cp_in, cp_out, cp_again, sel>>
    /\ UNCHANGED <<opml, feeds, fetched>>

(* stage 3: the collected articles are stored *)
RunPersist ==
    /\ pc = "classified"
    /\ pc' = "persisted"
    /\ LET done == persist_loop([store |-> articles, journals |-> journals,
                                 results |-> <<>>, new_count |-> 0],
                                run.articles, 1, runs_done + 1)
       IN  /\ articles' = done.store
           /\ journals' = done.journals
           /\ run' = [run EXCEPT !.results = done.results,
                                 !.new_count = done.new_count]
    /\ UNCHANGED <<runs_done, last_run, oa_log, ss_log, llm_log, responded>>
    /\ UNCHANGED <<cmds_done, last_cmd>>
    /\ UNCHANGED <<priority_keywords, cp_in, cp_out, cp_again, sel>>
    /\ UNCHANGED <<opml, feeds, fetched>>

(* stage 4, first half: fetch_missing_abstracts(limit=can_fetch,            *)
(* translate=False, summarizer=None), skipped with the second half when     *)
(* nothing can be fetched                                                   *)
RunOpenAlex ==
    /\ pc = "persisted"
    /\ LET can_fetch == can_fetch_from_openalex(articles)
       IN  IF can_fetch > 0
           THEN /\ pc' = "openalex_done"
                /\ \E selected \in get_articles_without_abstract(articles, can_fetch) :
                   \E works \in ProviderReplies(selected, OpenAlexReplies) :
                      /\ articles' = fetch_missing_loop(articles, selected, works,
                                         FALSE, priority_keywords,
                                         [id \in selected |-> NoReply])
                      /\ oa_log' = works
                /\ UNCHANGED ss_log
           ELSE /\ pc' = "enriched"
                /\ oa_log' = NoLog
                /\ ss_log' = NoLog
                /\ UNCHANGED articles
    /\ UNCHANGED <<journals, run, runs_done, last_run, llm_log, responded>>
    /\ UNCHANGED <<cmds_done, last_cmd>>
    /\ UNCHANGED <<priority_keywords, cp_in, cp_out, cp_again, sel>>
    /\ UNCHANGED <<opml, feeds, fetched>>

(* stage 4, second half: fetch_abstracts_from_semantic_scholar(limit=50) *)
RunSemanticScholar ==
    /\ pc = "openalex_done"
    /\ pc' = "enriched"
    /\ \E selected \in semantic_scholar_select(articles, SS_LIMIT) :
       \E papers \in ProviderReplies(selected, SemanticScholarReplies) :
          /\ articles' = semantic_scholar_loop(articles, selected, papers)
          /\ ss_log' = papers
    /\ UNCHANGED <<journals, run, runs_done, last_run, oa_log, llm_log, responded>>
    /\ UNCHANGED <<cmds_done, last_cmd>>
    /\ UNCHANGED <<priority_keywords, cp_in, cp_out, cp_again, sel>>
    /\ UNCHANGED <<opml, feeds, fetched>>

(* stage 5: recheck_priorities, skipped without a summarizer *)
RunReclassify ==
    /\ pc = "enriched"
    /\ pc' = "reclassified"
    /\ articles' = IF run.summarizer
                   THEN recheck_priorities(articles, priority_keywords)
                   ELSE articles
    /\ oa_log' = NoLog
    /\ ss_log' = NoLog
    /\ UNCHANGED <<journals, run, runs_done, last_run, llm_log, responded>>
    /\ UNCHANGED <<cmds_done, last_cmd>>
    /\ UNCHANGED <<priority_keywords, cp_in, cp_out, cp_again, sel>>
    /\ UNCHANGED <<opml, feeds, fetched>>

(* the condition of stage 6: if translate and self.summarizer *)
translate_stage_ignoring_flag(translate, summarizer) == summarizer

translate_stage(translate, summarizer) == translate /\ summarizer

(* stage 6 run straight after the enrichment, stage 5 left out *)
RunTranslate_before_recheck ==
    /\ pc = "enriched"
    /\ pc' = "translated"
    /\ IF translate_stage(run.translate, run.summarizer)
       THEN LET selected == translate_select(articles, {"high"})
            IN  \E replies \in [selected -> LLMReplies] :
                   /\ articles' = translate_loop(articles, selected,
                                                 priority_keywords, replies)
                   /\ llm_log' = [id \in selected |->
                                     [reply |-> replies[id],
                                      had_response |-> id \in responded]]
                   /\ responded' = responded \cup
                                     {id \in selected : replies[id].api = "ok"}
       ELSE /\ llm_log' = NoLog
            /\ UNCHANGED <<articles, responded>>
    /\ UNCHANGED <<journals, run, runs_done, last_run, oa_log, ss_log>>
    /\ UNCHANGED <<cmds_done, last_cmd>>
    /\ UNCHANGED <<priority_keywords, cp_in, cp_out, cp_again, sel>>
    /\ UNCHANGED <<opml, feeds, fetched>>

(* stage 6: translate_priority_articles(db, summarizer, ['high']), skipped *)
(* when translation is off or there is no summarizer                       *)
RunTranslate ==
    /\ pc = "reclassified"
    /\ pc' = "translated"
    /\ IF translate_stage(run.translate, run.summarizer)
       THEN LET selected == translate_select(articles, {"high"})
            IN  \E replies \in [selected -> LLMReplies] :
                   /\ articles' = translate_loop(articles, selected,
                                                 priority_keywords, replies)
                   /\ llm_log' = [id \in selected |->
                                     [reply |-> replies[id],
                                      had_response |-> id \in responded]]
                   /\ responded' = responded \cup
                                     {id \in selected : replies[id].api = "ok"}
       ELSE /\ llm_log' = NoLog
            /\ UNCHANGED <<articles, responded>>
    /\ UNCHANGED <<journals, run, runs_done, last_run, oa_log, ss_log>>
    /\ UNCHANGED <<cmds_done, last_cmd>>
    /\ UNCHANGED <<priority_keywords, cp_in, cp_out, cp_again, sel>>
    /\ UNCHANGED <<opml, feeds, fetched>>

(* Database.get_stats, without the two counts over time windows *)
get_stats(store, journal_rows) ==
    [total_journals |-> Len(journal_rows),
     total_articles |-> Len(store),
     high_priority |-> Cardinality({i \in 1..Len(store) :
                                       store[i].priority = "high"})]

(* stages 7 and 8 and the returned summary: total, new and stats are the  *)
(* keys of the returned dict, the early return carries no stats           *)
RunFinish ==
    /\ pc = "translated"
    /\ pc' = "idle"
    /\ runs_done' = runs_done + 1
    /\ last_run' = [collected |-> run.collected,
                    unchanged |-> run.collected = last_run.collected,
                    total |-> Len(run.articles),
                    new |-> run.new_count,
                    rows_added |-> Len(articles) - run.rows_before,
                    stats |-> <<get_stats(articles, journals)>>]
    /\ run' = IdleRun
    /\ oa_log' = NoLog
    /\ ss_log' = NoLog
    /\ llm_log' = NoLog
    /\ UNCHANGED <<articles, journals, responded>>
    /\ UNCHANGED <<cmds_done, last_cmd>>
    /\ UNCHANGED <<priority_keywords, cp_in, cp_out, cp_again, sel>>
    /\ UNCHANGED <<opml, feeds, fetched>>

----------------------------------------------------------------------------
(* The maintenance commands of the CLI, each a whole process *)

CmdLimits == {ABSTRACT_LIMIT}

LongEnough(work) ==
    work # NULL /\ Truthy(work) /\ Len(work) >= MIN_ABSTRACT_LEN

(* --fetch-abstracts: JournalMonitor.fetch_abstracts(limit, translate) *)
CmdFetchAbstracts ==
    /\ pc = "idle"
    /\ cmds_done < MaxCmds
    /\ \E limit \in CmdLimits, flags \in RunFlags :
       \E selected \in get_articles_without_abstract(articles, limit) :
       \E works \in [selected -> OpenAlexReplies] :
          LET translate == flags.translate /\ flags.has_key
              found == {id \in selected : LongEnough(works[id])}
          IN  \E answers \in [IF translate THEN found ELSE {} -> LLMReplies] :
                 /\ articles' = fetch_missing_loop(articles, selected, works,
                                    translate, priority_keywords,
                                    [id \in selected |->
                                        IF id \in DOMAIN answers
                                        THEN answers[id] ELSE NoReply])
                 /\ oa_log' = works
                 /\ last_cmd' = [name |-> "fetch_abstracts",
                                 returned |-> <<Cardinality(found)>>]
    /\ cmds_done' = cmds_done + 1
    /\ ss_log' = NoLog
    /\ llm_log' = NoLog
    /\ UNCHANGED <<journals, pc, run, runs_done, last_run, responded>>
    /\ UNCHANGED <<priority_keywords, cp_in, cp_out, cp_again, sel>>
    /\ UNCHANGED <<opml, feeds, fetched>>

(* --recheck-priority: JournalMonitor.recheck_priorities, with a          *)
(* summarizer (without one it returns (0, 0, 0) at once)                  *)
CmdRecheck ==
    /\ pc = "idle"
    /\ cmds_done < MaxCmds
    /\ articles' = recheck_priorities(articles, priority_keywords)
    /\ last_cmd' = [name |-> "recheck_priorities",
                    returned |-> recheck_counts(articles, priority_keywords)]
    /\ cmds_done' = cmds_done + 1
    /\ oa_log' = NoLog
    /\ ss_log' = NoLog
    /\ llm_log' = NoLog
    /\ UNCHANGED <<journals, pc, run, runs_done, last_run, responded>>
    /\ UNCHANGED <<priority_keywords, cp_in, cp_out, cp_again, sel>>
    /\ UNCHANGED <<opml, feeds, fetched>>

(* --translate-priority: JournalMonitor.translate_priority_only(['high',  *)
(* 'medium']), with a summarizer (without one it returns 0 at once)       *)
CmdTranslatePriority ==
    /\ pc = "idle"
    /\ cmds_done < MaxCmds
    /\ LET selected == translate_select(articles, {"high", "medium"})
       IN  \E replies \in [selected -> LLMReplies] :
              /\ articles' = translate_loop(articles, selected,
                                            priority_keywords, replies)
              /\ llm_log' = [id \in selected |->
                                [reply |-> replies[id],
                                 had_response |-> id \in responded]]
              /\ responded' = responded \cup
                                {id \in selected : replies[id].api = "ok"}
              /\ last_cmd' = [name |-> "translate_priority_only",
                              returned |-> <<Cardinality(selected)>>]
    /\ cmds_done' = cmds_done + 1
    /\ oa_log' = NoLog
    /\ ss_log' = NoLog
    /\ UNCHANGED <<journals, pc, run, runs_done, last_run>>
    /\ UNCHANGED <<priority_keywords, cp_in, cp_out, cp_again, sel>>
    /\ UNCHANGED <<opml, feeds, fetched>>

(* no subscription file: RSSParser.__init__ leaves self.feeds empty *)
NoDocument == <<>>

NoCmd == [name |-> "none", returned |-> <<>>]

NoRun == [collected |-> <<>>, unchanged |-> FALSE, total |-> 0, new |-> 0,
          rows_added |-> 0, stats |-> <<>>]

Init ==
    /\ articles = <<>>
    /\ journals = <<>>
    /\ pc = "idle"
    /\ run = IdleRun
    /\ runs_done = 0
    /\ last_run = NoRun
    /\ oa_log = NoLog
    /\ ss_log = NoLog
    /\ llm_log = NoLog
    /\ responded = {}
    /\ cmds_done = 0
    /\ last_cmd = NoCmd
    /\ priority_keywords = DefaultKeywords
    /\ cp_in = <<>>
    /\ cp_out = <<>>
    /\ cp_again = <<>>
    /\ sel = <<>>
    /\ opml = NoDocument
    /\ feeds = <<>>
    /\ fetched = <<>>

Next ==
    \/ RunExtract
    \/ RunClassify
    \/ RunPersist
    \/ RunOpenAlex
    \/ RunSemanticScholar
    \/ RunReclassify
    \/ RunTranslate
    \/ RunFinish
    \/ CmdFetchAbstracts
    \/ CmdRecheck
    \/ CmdTranslatePriority

Spec == Init /\ [][Next]_vars

----------------------------------------------------------------------------
(* The classifier on its own: every keyword configuration and every text  *)
(* within the bounds                                                       *)

Alphabet == {"a", "B"}
KeywordUniverse == {<<"a">>, <<"B">>, <<"b", " ">>}

(* two tiers with no keyword in common, as in Summarizer.__init__ *)
KeywordConfigs ==
    {cfg \in [high : SeqsUpTo(KeywordUniverse, MaxKeywords),
              medium : SeqsUpTo(KeywordUniverse, MaxKeywords)] :
        Range(cfg.high) \cap Range(cfg.medium) = {}}

(* a store with one row, as a run with a summarizer leaves it *)
SampleStore ==
    insert_article(<<>>,
        ("journal_id" :> 1)
        @@ classify_collected(<<ENTRY_SHORT>>, DefaultKeywords)[1], 1).store

(* a _check_priority that files what it matched under the high tier *)
keywords_after_check_appending(kws, title, abstract) ==
    [kws EXCEPT !.high =
        @ \o ScanTier(kws.medium, Lower(title \o <<" ">> \o abstract))]

(* what a call of _check_priority leaves of self.priority_keywords: the   *)
(* method only reads the two lists                                         *)
keywords_after_check(kws, title, abstract) == kws

(* a call of _check_priority(title, abstract), observed from outside *)
CheckPriorityCall ==
    /\ cp_in = <<>>
    /\ \E title \in SeqsUpTo(Alphabet, MaxTitleLen),
          abstract \in SeqsUpTo(Alphabet, MaxAbstractLen) :
          /\ cp_in' = <<title, abstract, priority_keywords>>
          /\ cp_out' = <<check_priority(priority_keywords, title, abstract)>>
          /\ priority_keywords' =
                 keywords_after_check(priority_keywords, title, abstract)
    /\ cp_again' = <<>>
    /\ UNCHANGED <<articles, journals, pc, run, runs_done, last_run, oa_log,
                   ss_log, llm_log, responded, cmds_done, last_cmd, sel>>
    /\ UNCHANGED <<opml, feeds, fetched>>

(* the same call once more *)
CheckPriorityAgain ==
    /\ cp_in # <<>>
    /\ cp_again = <<>>
    /\ cp_again' = <<check_priority(priority_keywords, cp_in[1], cp_in[2])>>
    /\ priority_keywords' =
           keywords_after_check(priority_keywords, cp_in[1], cp_in[2])
    /\ UNCHANGED <<articles, journals, pc, run, runs_done, last_run, oa_log,
                   ss_log, llm_log, responded, cmds_done, last_cmd, sel>>
    /\ UNCHANGED <<opml, feeds, fetched>>
    /\ UNCHANGED <<cp_in, cp_out>>

InitClassify ==
    /\ articles = SampleStore
    /\ journals = <<"J1">>
    /\ pc = "idle"
    /\ run = IdleRun
    /\ runs_done = 0
    /\ last_run = NoRun
    /\ oa_log = NoLog
    /\ ss_log = NoLog
    /\ llm_log = NoLog
    /\ responded = {}
    /\ cmds_done = 0
    /\ last_cmd = NoCmd
    /\ priority_keywords \in KeywordConfigs
    /\ cp_in = <<>>
    /\ cp_out = <<>>
    /\ cp_again = <<>>
    /\ sel = <<>>
    /\ opml = NoDocument
    /\ feeds = <<>>
    /\ fetched = <<>>

NextClassify == CheckPriorityCall \/ CheckPriorityAgain

SpecClassify == InitClassify /\ [][NextClassify]_vars

----------------------------------------------------------------------------
(* The two enrichment eligibility queries on their own: every store of    *)
(* rows the schema admits, within the bounds                              *)

SchemaAbstracts == {NULL, EMPTY, SHORT_PLAIN, LONG_PLAIN}
SchemaDois == {NULL, EMPTY, <<"d">>}
SelectLimits == {1, ABSTRACT_LIMIT}

SchemaRow(i, abstract, doi, fetched_at) ==
    [id |-> i, journal_id |-> 1, title |-> <<"x">>, title_ko |-> NULL,
     abstract |-> abstract, abstract_ko |-> NULL, summary_ko |-> NULL,
     url |-> Pad(i, "u"), doi |-> doi, fetched_at |-> fetched_at,
     hash |-> generate_hash(<<"x">>, Pad(i, "u")), priority |-> "normal",
     keywords_matched |-> NULL]

SchemaStores ==
    UNION {{[i \in 1..n |-> SchemaRow(i, a[i], d[i], f[i])] :
               a \in [1..n -> SchemaAbstracts], d \in [1..n -> SchemaDois],
               f \in {g \in [1..n -> 1..2] :
                         \A i, j \in 1..n : i <= j => g[i] <= g[j]}} :
        n \in 0..MaxRows}

(* articles = db.get_articles_without_abstract(limit=limit) *)
SelectOpenAlex ==
    /\ \E limit \in SelectLimits :
       \E selected \in get_articles_without_abstract(articles, limit) :
          sel' = <<[stage |-> "openalex", limit |-> limit, ids |-> selected]>>
    /\ UNCHANGED <<articles, journals, pc, run, runs_done, last_run, oa_log,
                   ss_log, llm_log, responded, cmds_done, last_cmd>>
    /\ UNCHANGED <<priority_keywords, cp_in, cp_out, cp_again>>
    /\ UNCHANGED <<opml, feeds, fetched>>

(* the SELECT of fetch_abstracts_from_semantic_scholar(db, limit) *)
SelectSemanticScholar ==
    /\ \E limit \in SelectLimits :
       \E selected \in semantic_scholar_select(articles, limit) :
          sel' = <<[stage |-> "semantic_scholar", limit |-> limit,
                    ids |-> selected]>>
    /\ UNCHANGED <<articles, journals, pc, run, runs_done, last_run, oa_log,
                   ss_log, llm_log, responded, cmds_done, last_cmd>>
    /\ UNCHANGED <<priority_keywords, cp_in, cp_out, cp_again>>
    /\ UNCHANGED <<opml, feeds, fetched>>

InitSelect ==
    /\ articles \in SchemaStores
    /\ journals = <<"J1">>
    /\ pc = "idle"
    /\ run = IdleRun
    /\ runs_done = 0
    /\ last_run = NoRun
    /\ oa_log = NoLog
    /\ ss_log = NoLog
    /\ llm_log = NoLog
    /\ responded = {}
    /\ cmds_done = 0
    /\ last_cmd = NoCmd
    /\ priority_keywords = DefaultKeywords
    /\ cp_in = <<>>
    /\ cp_out = <<>>
    /\ cp_again = <<>>
    /\ sel = <<>>
    /\ opml = NoDocument
    /\ feeds = <<>>
    /\ fetched = <<>>

NextSelect == SelectOpenAlex \/ SelectSemanticScholar

SpecSelect == InitSelect /\ [][NextSelect]_vars

----------------------------------------------------------------------------
(* Properties of the pipeline (specification Spec)                         *)

PairOf(article) == <<Get(article, "title", EMPTY), Get(article, "url", EMPTY)>>
RowPair(row) == <<row.title, row.url>>

(* the ids of the rows the store held when the i-th article of the run    *)
(* was inserted                                                            *)
StoredBefore(i) ==
    (1..run.rows_before)
        \cup {run.results[j] : j \in {k \in 1..(i - 1) : run.results[k] # 0}}

(* C1: the store holds at most one row per (title, url) pair; the first    *)
(* insert of a pair returns a row id (and stores the row), and every later *)
(* insert of the same pair returns None and adds no row.                   *)
C1_OneRowPerPair ==
    /\ \A a, b \in DOMAIN articles :
          RowPair(articles[a]) = RowPair(articles[b]) => a = b
    /\ pc = "persisted" =>
          /\ \A i \in DOMAIN run.results :
                IF \E id \in StoredBefore(i) :
                      RowPair(articles[id]) = PairOf(run.articles[i])
                THEN run.results[i] = 0
                ELSE /\ run.results[i] \in DOMAIN articles
                     /\ run.results[i] \notin StoredBefore(i)
                     /\ RowPair(articles[run.results[i]]) = PairOf(run.articles[i])
          /\ Len(articles) = run.rows_before
                + Cardinality({i \in DOMAIN run.results : run.results[i] # 0})

(* C2: in the translation gate, an article whose language-model call      *)
(* raises keeps its title_ko, abstract_ko and summary_ko exactly as they   *)
(* were, so it is still eligible for the gate afterwards.                  *)
C2_RaiseLeavesArticleUntouched ==
    [][(pc = "reclassified" /\ pc' = "translated") =>
          \A id \in DOMAIN llm_log' :
             llm_log'[id].reply.api = "raise" =>
                /\ articles'[id].title_ko = articles[id].title_ko
                /\ articles'[id].abstract_ko = articles[id].abstract_ko
                /\ articles'[id].summary_ko = articles[id].summary_ko
                /\ TranslateEligible(articles'[id], {"high"})]_vars

(* C3: a run on the feed set of the run before it inserts no row: its      *)
(* 'new' count is 0 and the store has as many rows as before.              *)
C3_SecondRunInsertsNothing ==
    (pc = "idle" /\ runs_done >= 2
        /\ last_run.unchanged)
    => (last_run.new = 0 /\ last_run.rows_added = 0)

C3_Witness ==
    /\ pc = "idle"
    /\ runs_done = 2
    /\ last_run.unchanged
    /\ last_run.total = 2
    /\ Len(articles) > 0

(* C4: across orchestrator runs the translation gate calls the language    *)
(* model at most once for an article whose call obtained a response: no    *)
(* call of a later run is for an article that already had a response,      *)
(* whatever sections that response contained.                              *)
C4_NoSecondCallAfterResponse ==
    cmds_done = 0 => \A id \in DOMAIN llm_log : ~llm_log[id].had_response

(* C7: every stored row has a non-empty list of matched keywords exactly   *)
(* when its priority is not 'normal'.                                      *)
C7_KeywordsIffPriority ==
    \A i \in DOMAIN articles :
       (articles[i].keywords_matched # NULL
            /\ JsonLoads(articles[i].keywords_matched) # <<>>)
       <=> articles[i].priority # "normal"

C7_Witness ==
    \E i, j \in DOMAIN articles :
       /\ articles[i].priority = "high"
       /\ articles[i].keywords_matched = JsonDumps(<<K_FOUCAULT>>)
       /\ articles[j].priority = "normal"
       /\ articles[j].keywords_matched = NULL

C10_NoSummarySection ==
    pc = "translated" =>
       \A id \in DOMAIN llm_log :
          (llm_log[id].reply.api = "ok"
              /\ llm_log[id].reply.text = RESPONSE_NO_SUMMARY)
          => /\ articles[id].title_ko = <<"T">>
             /\ articles[id].abstract_ko = <<"A">>
             /\ articles[id].summary_ko = EMPTY

C10_Witness ==
    /\ pc = "translated"
    /\ \E id \in DOMAIN llm_log :
          /\ llm_log[id].reply.text = RESPONSE_NO_SUMMARY
          /\ articles[id].abstract_ko = <<"A">>
          /\ articles[id].summary_ko = EMPTY

----------------------------------------------------------------------------
(* Properties of the classifier (specification SpecClassify)               *)

(* the keyword occurs, case-insensitively, in the text of the last call *)
Occurs(kw) ==
    Contains(Lower(cp_in[1] \o <<" ">> \o cp_in[2]), Lower(kw))

(* the positions of the high-tier list whose keyword occurs *)
HighHits == {i \in 1..Len(cp_in[3].high) : Occurs(cp_in[3].high[i])}

(* the n-th of them, in list order *)
NthHit(n) ==
    CHOOSE i \in HighHits : Cardinality({j \in HighHits : j < i}) = n - 1

(* C5: when the text contains at least one high-tier keyword, the call     *)
(* returns 'high' with exactly the high-tier keywords that occur in the    *)
(* text, every one of them in list order, and no medium-tier keyword.      *)
C5_HighTierWins ==
    (cp_out # <<>> /\ HighHits # {}) =>
        /\ cp_out[1].priority = "high"
        /\ Len(cp_out[1].keywords) = Cardinality(HighHits)
        /\ \A n \in 1..Len(cp_out[1].keywords) :
              /\ cp_out[1].keywords[n] = cp_in[3].high[NthHit(n)]
              /\ cp_out[1].keywords[n] \notin Range(cp_in[3].medium)

C5_Witness ==
    /\ cp_out # <<>>
    /\ Cardinality(HighHits) = 1
    /\ Len(cp_in[3].high) = 2
    /\ \E i \in 1..Len(cp_in[3].medium) : Occurs(cp_in[3].medium[i])
    /\ cp_out[1].priority = "high"

----------------------------------------------------------------------------
(* Properties of the eligibility queries (specification SpecSelect)        *)

(* rows with a DOI whose abstract is NULL or has 0..49 characters *)
ShortWithDoi ==
    {i \in DOMAIN articles :
        /\ articles[i].doi # NULL
        /\ Len(articles[i].doi) > 0
        /\ \/ articles[i].abstract = NULL
           \/ Len(articles[i].abstract) \in 0..49}

(* C8: both enrichment stages select by the same 50-character threshold:   *)
(* a row with a DOI and an abstract of 0..49 characters (or NULL) is       *)
(* selected like one with an empty abstract, one of 50 or more never.      *)
C8_SameThreshold ==
    sel # <<>> =>
        /\ sel[1].ids \subseteq ShortWithDoi
        /\ Cardinality(sel[1].ids)
              = Min2(sel[1].limit, Cardinality(ShortWithDoi))

C8_Witness ==
    /\ sel # <<>>
    /\ sel[1].stage = "semantic_scholar"
    /\ \E i \in sel[1].ids, j \in DOMAIN articles \ sel[1].ids :
          /\ articles[i].abstract = SHORT_PLAIN
          /\ articles[j].abstract = LONG_PLAIN
          /\ articles[j].doi = articles[i].doi
    /\ Cardinality(sel[1].ids) < sel[1].limit

----------------------------------------------------------------------------
(* Properties of the pipeline, continued (specification Spec)              *)

(* the high-tier keywords that occur, case-insensitively, in the title or  *)
(* the abstract of a collected article                                     *)
HighTermsIn(article) ==
    LET text == Lower(Get(article, "title", EMPTY) \o <<" ">>
                      \o Get(article, "abstract", EMPTY))
    IN  SelectSeq(priority_keywords.high,
                  LAMBDA kw : Contains(text, Lower(kw)))

(* C11: every collected entry whose title or abstract contains a high-tier *)
(* keyword is stored by the run with priority 'high' and the high-tier     *)
(* terms that matched, in every run configuration, with or without an API  *)
(* key.                                                                    *)
C11_HighKeywordStoredHigh ==
    pc = "persisted" =>
       \A i \in DOMAIN run.results :
          (run.results[i] # 0 /\ HighTermsIn(run.collected[i]) # <<>>) =>
             /\ articles[run.results[i]].priority = "high"
             /\ articles[run.results[i]].keywords_matched
                   = JsonDumps(HighTermsIn(run.collected[i]))

(* C12: an article inserted with an empty list of matched keywords is      *)
(* stored with the encoding of an empty list, never with NULL.             *)
C12_EmptyListNotNull ==
    pc = "persisted" =>
       \A i \in DOMAIN run.results :
          (/\ run.results[i] # 0
           /\ "keywords_matched" \in DOMAIN run.articles[i]
           /\ run.articles[i].keywords_matched = <<>>) =>
             /\ articles[run.results[i]].keywords_matched # NULL
             /\ articles[run.results[i]].keywords_matched = JSON_EMPTY_LIST

----------------------------------------------------------------------------
(* RSSParser: collecting the articles of the registered feeds.  What a    *)
(* feed delivers is an outcome of the outside world:                       *)
(*   parse    "ok", "bozo" (feedparser reports a fetch or parse error in   *)
(*            parsed.bozo and hands over the entries it could read) or     *)
(*            "raises" (feedparser.parse itself raises)                     *)
(*   entries  parsed.entries                                                *)
(*   raise_at the entry whose processing raises, 0 for none                 *)

MaxEntries == 2         \* entries a feed delivers

MAX_ARTICLES_PER_FEED == 10
ABSTRACT_MAX == 2000

(* RSSParser._clean_html on a text without character entities: tags are   *)
(* removed, runs of white space become one blank, the ends are stripped    *)
RECURSIVE DropTags(_, _)
DropTags(text, inside) ==
    IF text = <<>> THEN <<>>
    ELSE IF inside
         THEN DropTags(Tail(text), Head(text) # ">")
         ELSE IF /\ Head(text) = "<"
                 /\ Len(text) >= 3
                 /\ text[2] # ">"
                 /\ \E k \in 3..Len(text) : text[k] = ">"
              THEN DropTags(Tail(text), TRUE)
              ELSE <<Head(text)>> \o DropTags(Tail(text), FALSE)

RECURSIVE Squeeze(_)
Squeeze(text) ==
    IF Len(text) < 2 THEN text
    ELSE IF text[1] = " " /\ text[2] = " " THEN Squeeze(Tail(text))
    ELSE <<Head(text)>> \o Squeeze(Tail(text))

StripBlanks(text) ==
    LET full == {k \in 1..Len(text) : text[k] # " "}
    IN  IF full = {} THEN <<>> ELSE SubSeq(text, SetMin(full), SetMax(full))

clean_html(text) ==
    IF text = <<>> THEN <<>> ELSE StripBlanks(Squeeze(DropTags(text, FALSE)))

(* the article dict fetch_feed builds from one entry *)
article_of(entry, feed) ==
    LET abstract == clean_html(entry.summary)
    IN  [title |-> clean_html(entry.title),
         url |-> entry.link,
         abstract |-> SubSeq(abstract, 1, Min2(Len(abstract), ABSTRACT_MAX)),
         doi |-> IF entry.prism_doi # EMPTY THEN entry.prism_doi ELSE NULL,
         journal_name |-> feed.name,
         category |-> feed.category]

(* the loop of fetch_feed with a date filter that also drops the entries *)
(* without a date                                                        *)
RECURSIVE feed_loop_dated_only(_, _, _, _, _, _)
feed_loop_dated_only(entries, i, found, feed, raise_at, max_articles) ==
    IF i > Len(entries) \/ i > max_articles * 2 THEN found
    ELSE IF raise_at = i THEN found
    ELSE IF entries[i].date # "recent"
         THEN feed_loop_dated_only(entries, i + 1, found, feed, raise_at, max_articles)
    ELSE IF clean_html(entries[i].title) = <<>> \/ entries[i].link = <<>>
         THEN feed_loop_dated_only(entries, i + 1, found, feed, raise_at, max_articles)
    ELSE LET more == Append(found, article_of(entries[i], feed))
         IN  IF Len(more) >= max_articles THEN more
             ELSE feed_loop_dated_only(entries, i + 1, more, feed, raise_at, max_articles)

(* the loop of fetch_feed over parsed.entries[:max_articles * 2]; an       *)
(* exception leaves the loop for the except clause, and the articles       *)
(* appended so far are returned                                            *)
RECURSIVE feed_loop(_, _, _, _, _, _)
feed_loop(entries, i, found, feed, raise_at, max_articles) ==
    IF i > Len(entries) \/ i > max_articles * 2 THEN found
    ELSE IF raise_at = i THEN found
    ELSE IF entries[i].date = "old"
         THEN feed_loop(entries, i + 1, found, feed, raise_at, max_articles)
    ELSE IF clean_html(entries[i].title) = <<>> \/ entries[i].link = <<>>
         THEN feed_loop(entries, i + 1, found, feed, raise_at, max_articles)
    ELSE LET more == Append(found, article_of(entries[i], feed))
         IN  IF Len(more) >= max_articles THEN more
             ELSE feed_loop(entries, i + 1, more, feed, raise_at, max_articles)

(* RSSParser.fetch_feed under a given outcome *)
fetch_feed(feed, outcome, max_articles) ==
    IF outcome.parse = "raises" THEN <<>>
    ELSE feed_loop(outcome.entries, 1, <<>>, feed, outcome.raise_at,
                   max_articles)

(* RSSParser.fetch_all_feeds: categories is None (NULL) or a list *)
RECURSIVE fetch_all_loop(_, _, _, _, _)
fetch_all_loop(registry, i, outcomes, max_articles, categories) ==
    IF i > Len(registry) THEN <<>>
    ELSE (IF categories # NULL /\ categories # <<>>
             /\ registry[i].category \notin Range(categories)
          THEN <<>>
          ELSE fetch_feed(registry[i], outcomes[i], max_articles))
         \o fetch_all_loop(registry, i + 1, outcomes, max_articles, categories)

fetch_all_feeds(registry, outcomes, max_articles, categories) ==
    fetch_all_loop(registry, 1, outcomes, max_articles, categories)

----------------------------------------------------------------------------
(* RSSParser._parse_opml.  A subscription document is the sequence of the  *)
(* outline elements under its body; an outline element has a text, an      *)
(* xmlUrl (NULL when the attribute is absent) and child elements.          *)

MaxOutlines == 3        \* outline elements at the top of a document

DEFAULT_CATEGORY == "Uncategorized"

Outline(text, xml_url, children) ==
    [text |-> text, xmlUrl |-> xml_url, children |-> children]

FEED_A == Outline("Antipode", <<"a">>, <<>>)
FEED_B == Outline("Geoforum", <<"b">>, <<>>)
NOTE == Outline("note", NULL, <<>>)         \* an outline that is no feed
GROUP_ONE == Outline("Geography", NULL, <<FEED_A>>)
GROUP_TWO == Outline("Geography", NULL, <<FEED_A, FEED_B>>)
GROUP_NESTED ==
    Outline("Theory", NULL, <<FEED_A, Outline("Urban", NULL, <<FEED_B>>)>>)

OutlineElements ==
    {FEED_A, FEED_B, NOTE, GROUP_ONE, GROUP_TWO, GROUP_NESTED}

Documents == SeqsUpTo(OutlineElements, MaxOutlines)

(* root.iter('outline'): every outline element of the document, at any    *)
(* depth, in document order; each comes with the text of the element it    *)
(* is a child of (NULL at the top)                                         *)
RECURSIVE iter_outlines(_, _)
iter_outlines(elements, parent) ==
    IF elements = <<>> THEN <<>>
    ELSE <<[element |-> Head(elements), parent |-> parent]>>
         \o iter_outlines(Head(elements).children, <<Head(elements).text>>)
         \o iter_outlines(Tail(elements), parent)

FeedInfo(element, category) ==
    [name |-> element.text, url |-> element.xmlUrl, category |-> category]

(* the body of the loop of _parse_opml for one outline element: what it    *)
(* appends to self.feeds                                                   *)
parse_outline(outline) ==
    IF outline.children # <<>>
    THEN LET with_url == SelectSeq(outline.children,
                                   LAMBDA child : child.xmlUrl # NULL)
         IN  [k \in 1..Len(with_url) |-> FeedInfo(with_url[k], outline.text)]
    ELSE IF outline.xmlUrl # NULL
         THEN <<FeedInfo(outline, DEFAULT_CATEGORY)>>
         ELSE <<>>

RECURSIVE parse_loop(_, _)
parse_loop(visited, i) ==
    IF i > Len(visited) THEN <<>>
    ELSE parse_outline(visited[i].element) \o parse_loop(visited, i + 1)

(* RSSParser._parse_opml: the registry self.feeds *)
parse_opml(document) == parse_loop(iter_outlines(document, NULL), 1)

(* RSSParser(opml_path) on a subscription file *)
LoadOpml ==
    /\ opml = NoDocument
    /\ \E document \in Documents \ {NoDocument} :
          /\ opml' = document
          /\ feeds' = parse_opml(document)
    /\ UNCHANGED <<articles, journals, pc, run, runs_done, last_run, oa_log,
                   ss_log, llm_log, responded, cmds_done, last_cmd>>
    /\ UNCHANGED <<priority_keywords, cp_in, cp_out, cp_again, sel, fetched>>

NextOpml == LoadOpml

SpecOpml == Init /\ [][NextOpml]_vars

----------------------------------------------------------------------------
(* Properties of the feed registry (specification SpecOpml)                *)

(* the registry entry a feed element should yield: the label of the group *)
(* it is nested under, the default category when it is under no group      *)
ExpectedFeed(visit) ==
    FeedInfo(visit.element,
             IF visit.parent = NULL THEN DEFAULT_CATEGORY
             ELSE visit.parent[1])

Occurrences(list, x) == Cardinality({k \in 1..Len(list) : list[k] = x})

(* C14: the registry holds one entry for each feed element of the          *)
(* subscription document: with the label of its group as category when it  *)
(* is nested under a named group (never 'Uncategorized'), with the default *)
(* category only when it is under no group.                                *)
C14_GroupLabelIsCategory ==
    opml # NoDocument =>
       LET visited == iter_outlines(opml, NULL)
           feed_elements == SelectSeq(visited,
                                LAMBDA visit : visit.element.xmlUrl # NULL)
           expected == [k \in 1..Len(feed_elements) |->
                           ExpectedFeed(feed_elements[k])]
       IN  /\ Len(feeds) = Len(expected)
           /\ \A entry \in Range(feeds) \cup Range(expected) :
                 Occurrences(feeds, entry) = Occurrences(expected, entry)

----------------------------------------------------------------------------
(* Collecting the feeds on its own: every outcome of every registered     *)
(* feed within the bounds                                                  *)

Entry(title, link, date, prism_doi) ==
    [title |-> title, link |-> link, summary |-> <<"s", " ", " ", "s">>,
     date |-> date, prism_doi |-> prism_doi]

E_RECENT == Entry(<<"<", "i", ">", "t", " ">>, <<"l">>, "recent", <<"d">>)
E_OLD == Entry(<<"o">>, <<"m">>, "old", EMPTY)
E_UNDATED == Entry(<<"u">>, <<"n">>, "none", EMPTY)
E_NO_LINK == Entry(<<"k">>, EMPTY, "recent", EMPTY)

EntryKinds == {E_RECENT, E_OLD, E_UNDATED, E_NO_LINK}

(* what one feed delivers: feeds of up to longest entries *)
FeedOutcomes(longest) ==
    {[parse |-> "raises", entries |-> <<>>, raise_at |-> 0]}
    \cup {[parse |-> p, entries |-> entries, raise_at |-> k] :
             p \in {"ok", "bozo"},
             entries \in SeqsUpTo(EntryKinds, longest),
             k \in {0}}
    \cup UNION {{[parse |-> "ok", entries |-> entries, raise_at |-> k] :
                    k \in 1..Len(entries)} :
                entries \in SeqsUpTo(EntryKinds, longest)}

(* a registry of one feed is collected with feeds one entry longer *)
LongestFeed(registry) ==
    IF Len(registry) = 1 THEN MaxEntries + 1 ELSE MaxEntries

(* how run calls fetch_all_feeds: the configured maximum per feed and the  *)
(* configured categories (None by default)                                 *)
FetchCalls ==
    {[max_articles |-> MAX_ARTICLES_PER_FEED, categories |-> NULL],
     [max_articles |-> 1, categories |-> NULL],
     [max_articles |-> 1, categories |-> <<"Geography">>]}

FeedDocuments == {<<FEED_A>>, <<FEED_A, FEED_B>>, <<GROUP_ONE>>}

(* self.parser.fetch_all_feeds(hours, max_per_feed, categories) *)
FetchAllFeeds ==
    /\ fetched = <<>>
    /\ \E outcomes \in [1..Len(feeds) -> FeedOutcomes(LongestFeed(feeds))],
          call \in FetchCalls :
          fetched' = <<[outcomes |-> outcomes,
                        max_articles |-> call.max_articles,
                        categories |-> call.categories,
                        articles |-> fetch_all_feeds(feeds, outcomes,
                                        call.max_articles, call.categories)]>>
    /\ UNCHANGED <<articles, journals, pc, run, runs_done, last_run, oa_log,
                   ss_log, llm_log, responded, cmds_done, last_cmd>>
    /\ UNCHANGED <<priority_keywords, cp_in, cp_out, cp_again, sel, opml,
                   feeds>>

InitFeeds ==
    /\ articles = <<>>
    /\ journals = <<>>
    /\ pc = "idle"
    /\ run = IdleRun
    /\ runs_done = 0
    /\ last_run = NoRun
    /\ oa_log = NoLog
    /\ ss_log = NoLog
    /\ llm_log = NoLog
    /\ responded = {}
    /\ cmds_done = 0
    /\ last_cmd = NoCmd
    /\ priority_keywords = DefaultKeywords
    /\ cp_in = <<>>
    /\ cp_out = <<>>
    /\ cp_again = <<>>
    /\ sel = <<>>
    /\ opml \in FeedDocuments
    /\ feeds = parse_opml(opml)
    /\ fetched = <<>>

NextFeeds == FetchAllFeeds

SpecFeeds == InitFeeds /\ [][NextFeeds]_vars

----------------------------------------------------------------------------
(* Properties of the collection (specification SpecFeeds)                  *)

(* feedparser reported a fetch or parse error, or fetch_feed caught an     *)
(* exception                                                               *)
FeedFails(outcome) ==
    outcome.parse \in {"raises", "bozo"} \/ outcome.raise_at # 0

(* the feeds of the registry the call selects *)
SelectedFeeds ==
    {i \in DOMAIN feeds :
        fetched[1].categories = NULL
            \/ feeds[i].category \in Range(fetched[1].categories)}

(* the collected articles that come from a feed of the registry *)
ArticlesFrom(i) ==
    SelectSeq(fetched[1].articles,
              LAMBDA article : /\ article.journal_name = feeds[i].name
                               /\ article.category = feeds[i].category)

(* the entries of an outcome, among those fetch_feed looks at, that it     *)
(* turns into articles                                                     *)
Admitted(outcome) ==
    SelectSeq(SubSeq(outcome.entries, 1,
                     Min2(Len(outcome.entries), fetched[1].max_articles * 2)),
              LAMBDA entry : /\ entry.date # "old"
                             /\ clean_html(entry.title) # <<>>
                             /\ entry.link # <<>>)

(* C13: in fetch_all_feeds a feed whose fetch or parse fails contributes   *)
(* no article, and every other selected feed, also one after the failing   *)
(* feed, contributes its articles (as many as the maximum per feed         *)
(* allows).                                                                *)
C13_FailingFeedIsolated ==
    fetched # <<>> =>
       \A i \in SelectedFeeds :
          IF FeedFails(fetched[1].outcomes[i])
          THEN ArticlesFrom(i) = <<>>
          ELSE Len(ArticlesFrom(i))
                  = Min2(Len(Admitted(fetched[1].outcomes[i])),
                         fetched[1].max_articles)

----------------------------------------------------------------------------
(* Properties of the order of the stages (specification Spec)              *)

(* the steps of one run, as positions of the running command *)
StageOrder ==
    {<<"idle", "extracted">>, <<"extracted", "classified">>,
     <<"classified", "persisted">>, <<"persisted", "openalex_done">>,
     <<"persisted", "enriched">>, <<"openalex_done", "enriched">>,
     <<"enriched", "reclassified">>, <<"reclassified", "translated">>,
     <<"translated", "idle">>}

TranslatedFields(row) == <<row.title_ko, row.abstract_ko, row.summary_ko>>

C18_NoTranslationWhenOff ==
    [][(pc # "idle" /\ ~run.translate) =>
          /\ llm_log' = NoLog
          /\ \A id \in DOMAIN articles :
                TranslatedFields(articles'[id])
                   = TranslatedFields(articles[id])]_vars

C18_Witness ==
    /\ pc = "translated"
    /\ ~run.translate
    /\ run.summarizer
    /\ translate_select(articles, {"high"}) # {}
    /\ \E id \in DOMAIN articles : articles[id].abstract = LONG_HIGH


(* C16: a run whose extraction collects nothing still goes through the     *)
(* enrichment, re-classification and translation stages: while stored rows *)
(* with a DOI are missing an abstract, a run ends only from the position   *)
(* after the translation stage.                                            *)
C16_EmptyRunContinues ==
    [][(runs_done' = runs_done + 1 /\ can_fetch_from_openalex(articles) > 0)
          => pc = "translated"]_vars


(* the counts a returned summary carries: 'total' is the number collected, *)
(* 'new' the number inserted, stats['high_priority'] the number of high    *)
(* rows; no key carries a medium, an enriched or a translated count        *)
ReturnedCounts(summary) ==
    {"collected", "new"}
       \cup (IF summary.stats # <<>> THEN {"high"} ELSE {})

(* C17: every completed run returns a summary with the counts collected,   *)
(* new, high, medium, enriched and translated, where new is the number of  *)
(* rows the run added to the store and never exceeds the number collected. *)
C17_SummaryHasAllCounts ==
    runs_done > 0 =>
       /\ {"collected", "new", "high", "medium", "enriched", "translated"}
             \subseteq ReturnedCounts(last_run)
       /\ last_run.new = last_run.rows_added
       /\ last_run.new <= last_run.total


(* the rows whose abstract an enrichment step of the current run filled in *)
EnrichedInRun ==
    {id \in DOMAIN articles :
        \/ /\ id \in DOMAIN oa_log
           /\ LongEnough(oa_log[id])
           /\ articles[id].abstract = oa_log[id]
        \/ /\ id \in DOMAIN ss_log
           /\ LongEnough(ss_log[id])
           /\ articles[id].abstract = ss_log[id]}

(* C19: every row whose abstract the enrichment stage of a run filled in   *)
(* carries, after the re-classification stage of that run, the priority    *)
(* and the matched keywords that check_priority gives for its title and    *)
(* its new abstract, whatever keyword list it carried before.              *)
C19_EnrichedRowsReclassified ==
    [][(pc = "enriched" /\ pc' = "reclassified" /\ run.summarizer) =>
          \A id \in EnrichedInRun :
             LET checked == check_priority(priority_keywords,
                                           articles'[id].title,
                                           articles'[id].abstract)
             IN  /\ articles'[id].priority = checked.priority
                 /\ IF checked.keywords = <<>>
                    THEN articles'[id].keywords_matched
                            \in {NULL, JSON_EMPTY_LIST}
                    ELSE articles'[id].keywords_matched
                            = JsonDumps(checked.keywords)]_vars

----------------------------------------------------------------------------
(* The enrichment stage on a large backlog (specification SpecBacklog): a  *)
(* run has just stored a feed of SS_LIMIT articles or more, each with a    *)
(* DOI and no abstract; the rows are the ones the persist loop stores.     *)

MaxBacklog == 1

BacklogEntry(i) ==
    [title |-> <<"x">>, url |-> Pad(i, "w"), abstract |-> EMPTY,
     doi |-> Pad(i, "d"), journal_name |-> "J1"]

BacklogFeed(n) == [i \in 1..n |-> BacklogEntry(i)]

BacklogRows(feed) ==
    [i \in 1..Len(feed) |->
        [insert_article(<<>>, ("journal_id" :> 1) @@ feed[i], 1).store[1]
            EXCEPT !.id = i]]

InitBacklog ==
    /\ \E n \in SS_LIMIT..(SS_LIMIT + MaxBacklog),
          has_key \in BOOLEAN :
          LET collected == IF has_key
                           THEN classify_collected(BacklogFeed(n),
                                                   DefaultKeywords)
                           ELSE BacklogFeed(n)
          IN  /\ articles = BacklogRows(collected)
              /\ journals = <<"J1">>
              /\ run = [IdleRun EXCEPT !.collected = BacklogFeed(n),
                                       !.articles = collected,
                                       !.summarizer = has_key,
                                       !.results = [i \in 1..n |-> i],
                                       !.new_count = n]
    /\ pc = "persisted"
    /\ runs_done = 0
    /\ last_run = NoRun
    /\ oa_log = NoLog
    /\ ss_log = NoLog
    /\ llm_log = NoLog
    /\ responded = {}
    /\ cmds_done = 0
    /\ last_cmd = NoCmd
    /\ priority_keywords = DefaultKeywords
    /\ cp_in = <<>>
    /\ cp_out = <<>>
    /\ cp_again = <<>>
    /\ sel = <<>>
    /\ opml = NoDocument
    /\ feeds = <<>>
    /\ fetched = <<>>

NextBacklog ==
    \/ RunOpenAlex
    \/ RunSemanticScholar

SpecBacklog == InitBacklog /\ [][NextBacklog]_vars

(* C20: every article with a DOI for which OpenAlex gave nothing usable in *)
(* a run is queried at Semantic Scholar in the same run, however many      *)
(* articles are missing an abstract.                                       *)
C20_EveryFailureQueriedAtSemanticScholar ==
    [][(pc = "openalex_done" /\ pc' = "enriched") =>
          \A id \in DOMAIN oa_log :
             (HasDoi(articles[id]) /\ ~LongEnough(oa_log[id]))
                => id \in DOMAIN ss_log']_vars

----------------------------------------------------------------------------
(* Properties of the store operations (specification Spec)                 *)

(* C21: an insert_article call that hits an existing identity hash leaves  *)
(* the store as it is: in the persist step every row stored before keeps   *)
(* every column, a call that returns None adds no row, and the step ends.  *)
C21_DuplicateInsertIsNoOp ==
    [][(pc = "classified" /\ pc' = "persisted") =>
          /\ \A id \in DOMAIN articles : articles'[id] = articles[id]
          /\ Len(articles') = Len(articles)
                + Cardinality({i \in DOMAIN run'.results :
                                  run'.results[i] # 0})]_vars

C21_Witness ==
    /\ pc = "persisted"
    /\ \E i \in DOMAIN run.results :
          /\ run.results[i] = 0
          /\ \E id \in DOMAIN articles :
                /\ articles[id].hash
                      = generate_hash(run.articles[i].title,
                                      run.articles[i].url)
                /\ RowPair(articles[id]) = PairOf(run.articles[i])
                /\ articles[id].abstract # run.articles[i].abstract
                /\ articles[id].fetched_at < runs_done + 1

(* C30: two articles with different (title, url) pairs are never collapsed *)
(* by the deduplication, a '|' in a title or a URL included: after the     *)
(* persist step every collected pair has a row of its own in the store.    *)
C30_DistinctPairsBothStored ==
    pc = "persisted" =>
       \A i \in DOMAIN run.articles :
          \E id \in DOMAIN articles :
             RowPair(articles[id]) = PairOf(run.articles[i])


(* the entries of a feed that fetch_feed looks at: parsed.entries up to    *)
(* twice the maximum                                                       *)
LookedAt(outcome) ==
    1..Min2(Len(outcome.entries), fetched[1].max_articles * 2)

(* entry k passes the date filter and has a title and a URL *)
Keepable(outcome, k) ==
    /\ outcome.entries[k].date # "old"
    /\ clean_html(outcome.entries[k].title) # <<>>
    /\ outcome.entries[k].link # <<>>

(* C25: fetch_feed drops an entry for its date only when the entry has a   *)
(* date older than the cutoff; an entry without a date that has a title    *)
(* and a URL is kept while the maximum is not reached; the result has at   *)
(* most max_articles records, each made from an entry among the first      *)
(* 2 * max_articles of the feed.                                           *)
C25_DateFilterAndCaps ==
    fetched # <<>> =>
       \A i \in SelectedFeeds :
          LET outcome == fetched[1].outcomes[i]
              result == ArticlesFrom(i)
          IN  /\ Len(result) <= fetched[1].max_articles
              /\ \A n \in DOMAIN result :
                    \E k \in LookedAt(outcome) :
                       /\ result[n] = article_of(outcome.entries[k], feeds[i])
                       /\ outcome.entries[k].date # "old"
              /\ (outcome.parse # "raises" /\ outcome.raise_at = 0) =>
                    \A k \in LookedAt(outcome) :
                       (/\ Keepable(outcome, k)
                        /\ Cardinality({j \in 1..(k - 1) : Keepable(outcome, j)})
                              < fetched[1].max_articles)
                          => \E n \in DOMAIN result :
                                result[n] = article_of(outcome.entries[k],
                                                       feeds[i])

C25_Witness ==
    /\ fetched # <<>>
    /\ fetched[1].max_articles = 1
    /\ \E i \in SelectedFeeds :
          /\ fetched[1].outcomes[i].parse = "ok"
          /\ fetched[1].outcomes[i].raise_at = 0
          /\ fetched[1].outcomes[i].entries = <<E_OLD, E_UNDATED, E_RECENT>>
          /\ ArticlesFrom(i) = <<article_of(E_UNDATED, feeds[i])>>

----------------------------------------------------------------------------
(* OpenAlexClient._reconstruct_abstract on its own (specification          *)
(* SpecReconstruct).  An inverted index is the sequence of the items of    *)
(* the dict, each a word and its list of positions; a text is a sequence   *)
(* of characters.                                                          *)

MaxPosition == 2        \* positions run from 0 to MaxPosition

IndexWords == {<<"a">>, <<"b">>, <<"c">>}

(* a word occurs at most twice *)
PositionLists == SeqsUpTo(0..MaxPosition, 2)

(* the keys of a dict are distinct *)
IndexKeys ==
    {words \in SeqsUpTo(IndexWords, Cardinality(IndexWords) - 1) :
        \A i, j \in DOMAIN words : words[i] = words[j] => i = j}

InvertedIndexes ==
    UNION {{[i \in DOMAIN words |->
                [word |-> words[i], positions |-> lists[i]]] :
               lists \in [DOMAIN words -> PositionLists]} :
           words \in IndexKeys}

(* ' '.join(words) *)
RECURSIVE JoinWords(_)
JoinWords(words) ==
    IF words = <<>> THEN <<>>
    ELSE IF Len(words) = 1 THEN words[1]
    ELSE words[1] \o <<" ">> \o JoinWords(Tail(words))

(* position_word after the two loops: the last item that records a         *)
(* position gives its word                                                 *)
position_word(index) ==
    LET recorded == UNION {Range(index[i].positions) : i \in DOMAIN index}
    IN  [pos \in recorded |->
            index[SetMax({i \in DOMAIN index :
                             pos \in Range(index[i].positions)})].word]

(* OpenAlexClient._reconstruct_abstract *)
reconstruct_abstract(index) ==
    IF index = <<>> THEN <<>>
    ELSE LET placed == position_word(index)
         IN  IF DOMAIN placed = {} THEN <<>>
             ELSE LET max_pos == SetMax(DOMAIN placed)
                  IN  JoinWords([n \in 1..(max_pos + 1) |->
                                    IF (n - 1) \in DOMAIN placed
                                    THEN placed[n - 1] ELSE <<>>])

(* abstract = self._reconstruct_abstract(data['abstract_inverted_index']) *)
Reconstruct ==
    /\ cp_out = <<>>
    /\ cp_out' = <<reconstruct_abstract(cp_in[1])>>
    /\ UNCHANGED <<articles, journals, pc, run, runs_done, last_run, oa_log,
                   ss_log, llm_log, responded, cmds_done, last_cmd>>
    /\ UNCHANGED <<priority_keywords, cp_in, cp_again, sel, opml, feeds,
                   fetched>>

InitReconstruct ==
    /\ articles = <<>>
    /\ journals = <<>>
    /\ pc = "idle"
    /\ run = IdleRun
    /\ runs_done = 0
    /\ last_run = NoRun
    /\ oa_log = NoLog
    /\ ss_log = NoLog
    /\ llm_log = NoLog
    /\ responded = {}
    /\ cmds_done = 0
    /\ last_cmd = NoCmd
    /\ priority_keywords = DefaultKeywords
    /\ cp_in \in {<<index>> : index \in InvertedIndexes}
    /\ cp_out = <<>>
    /\ cp_again = <<>>
    /\ sel = <<>>
    /\ opml = NoDocument
    /\ feeds = <<>>
    /\ fetched = <<>>

NextReconstruct == Reconstruct

SpecReconstruct == InitReconstruct /\ [][NextReconstruct]_vars

(* the positions an index records, and whether none is recorded twice *)
RecordedPositions(index) ==
    UNION {Range(index[i].positions) : i \in DOMAIN index}

NoPositionTwice(index) ==
    /\ \A i, j \in DOMAIN index :
          i # j => Range(index[i].positions) \cap Range(index[j].positions) = {}
    /\ \A i \in DOMAIN index :
          Cardinality(Range(index[i].positions)) = Len(index[i].positions)

(* the words of an index in ascending order of position *)
RECURSIVE WordsByPosition(_, _)
WordsByPosition(index, positions) ==
    IF positions = {} THEN <<>>
    ELSE LET pos == SetMin(positions)
             item == CHOOSE i \in DOMAIN index :
                        pos \in Range(index[i].positions)
         IN  <<index[item].word>>
                \o WordsByPosition(index, positions \ {pos})

(* C26: _reconstruct_abstract returns the recorded words in ascending      *)
(* order of position, joined by single spaces; positions without a word    *)
(* contribute nothing to the text.                                         *)
C26_WordsInPositionOrder ==
    (cp_out # <<>> /\ NoPositionTwice(cp_in[1])) =>
       cp_out[1] = JoinWords(WordsByPosition(cp_in[1],
                                             RecordedPositions(cp_in[1])))

----------------------------------------------------------------------------
(* Properties of the batch operations (specification Spec)                 *)

(* the tier set the caller of translate_priority_articles passes: stage 6  *)
(* of a run passes ['high'], the --translate-priority command ['high',     *)
(* 'medium']                                                                *)
TiersOfStep == IF pc = "reclassified" THEN {"high"} ELSE {"high", "medium"}

(* a step that is a call of translate_priority_articles *)
TranslateCallStep ==
    \/ pc = "reclassified" /\ pc' = "translated"
          /\ run.translate /\ run.summarizer
    \/ cmds_done' = cmds_done + 1 /\ last_cmd'.name = "translate_priority_only"

NoTranslation(text) == text = NULL \/ text = EMPTY

(* C27: translate_priority_articles calls the language model only for the  *)
(* articles whose priority is in the caller's tier set, whose abstract has *)
(* at least 50 characters and whose abstract_ko or summary_ko is still     *)
(* empty; it writes no field of any other article, and it changes no       *)
(* article's priority, matched keywords or abstract.                       *)
C27_TranslateOnlyEligible ==
    [][TranslateCallStep =>
          LET chosen == {id \in DOMAIN articles :
                            /\ articles[id].priority \in TiersOfStep
                            /\ articles[id].abstract # NULL
                            /\ Len(articles[id].abstract) >= MIN_ABSTRACT_LEN
                            /\ (NoTranslation(articles[id].abstract_ko)
                                  \/ NoTranslation(articles[id].summary_ko))}
          IN  /\ DOMAIN llm_log' \subseteq chosen
              /\ DOMAIN articles' = DOMAIN articles
              /\ \A id \in DOMAIN articles :
                    /\ id \notin chosen => articles'[id] = articles[id]
                    /\ articles'[id].priority = articles[id].priority
                    /\ articles'[id].keywords_matched
                          = articles[id].keywords_matched
                    /\ articles'[id].abstract = articles[id].abstract]_vars

C27_Witness ==
    /\ pc = "translated"
    /\ \E a, b \in DOMAIN articles :
          /\ a \in DOMAIN llm_log
          /\ articles[a].priority = "high"
          /\ ~NoTranslation(articles[a].abstract_ko)
          /\ b \notin DOMAIN llm_log
          /\ articles[b].priority = "medium"
          /\ UsableAbstract(articles[b].abstract)
          /\ NoTranslation(articles[b].abstract_ko)


(* a step that is a call of recheck_priorities *)
RecheckCallStep ==
    \/ pc = "enriched" /\ pc' = "reclassified" /\ run.summarizer
    \/ cmds_done' = cmds_done + 1 /\ last_cmd'.name = "recheck_priorities"

NoKeywords(row) ==
    row.keywords_matched = NULL \/ row.keywords_matched = JSON_EMPTY_LIST

Rescan(row) == check_priority(priority_keywords, row.title, row.abstract)

(* C28: recheck_priorities modifies only articles whose abstract has at    *)
(* least 50 characters, whose matched-keyword list is empty or null and    *)
(* for which the re-scan finds a keyword; an article that matches nothing  *)
(* stays as it is; a second call right after the first modifies no row and *)
(* returns (0, 0, 0).                                                      *)
C28_RecheckOnlyUnmatched ==
    [][RecheckCallStep =>
          /\ DOMAIN articles' = DOMAIN articles
          /\ \A id \in DOMAIN articles :
                articles'[id] # articles[id] =>
                   /\ articles[id].abstract # NULL
                   /\ Len(articles[id].abstract) >= MIN_ABSTRACT_LEN
                   /\ NoKeywords(articles[id])
                   /\ Rescan(articles[id]).keywords # <<>>
                   /\ articles'[id].priority = Rescan(articles[id]).priority
          /\ recheck_priorities(articles', priority_keywords) = articles'
          /\ recheck_counts(articles', priority_keywords) = <<0, 0, 0>>]_vars

C28_Witness ==
    /\ last_cmd.name = "recheck_priorities"
    /\ last_cmd.returned = <<1, 1, 0>>
    /\ \E id \in DOMAIN articles :
          /\ articles[id].abstract = LONG_PLAIN
          /\ articles[id].priority = "normal"
          /\ NoKeywords(articles[id])
          /\ Rescan(articles[id]).keywords = <<>>


PriorityRank(priority) ==
    CASE priority = "high" -> 2
      [] priority = "medium" -> 1
      [] OTHER -> 0

OpsRow(i, title, abstract, doi) ==
    LET entry == [title |-> title, url |-> Pad(i, "u"), abstract |-> abstract,
                  doi |-> doi, journal_name |-> "J1"]
        classified == classify_collected(<<entry>>, DefaultKeywords)[1]
    IN  [insert_article(<<>>, ("journal_id" :> 1) @@ classified, 1).store[1]
            EXCEPT !.id = i]

OpsRowKinds ==
    { [title |-> T_RENT,  abstract |-> SHORT_HIGH, doi |-> <<"d">>],
      [title |-> <<"x">>, abstract |-> SHORT_HIGH, doi |-> <<"d">>],
      [title |-> <<"x">>, abstract |-> EMPTY,      doi |-> NULL],
      [title |-> <<"x">>, abstract |-> EMPTY,      doi |-> <<"d">>],
      [title |-> <<"x">>, abstract |-> LONG_PLAIN, doi |-> <<"d">>],
      [title |-> <<"x">>, abstract |-> LONG_HIGH,  doi |-> <<"d">>] }

OpsStores ==
    UNION { { [i \in 1..n |-> OpsRow(i, kinds[i].title, kinds[i].abstract,
                                     kinds[i].doi)] :
              kinds \in [1..n -> OpsRowKinds] } : n \in 1..MaxRows }

(* what one GET of a provider's API comes back with *)
HTTPResponses ==
    { [kind |-> "ok",           abstract |-> LONG_PLAIN],   \* 200 with a body
      [kind |-> "not_found",    abstract |-> EMPTY],        \* 404
      [kind |-> "rate_limited", abstract |-> EMPTY],        \* 429
      [kind |-> "timeout",      abstract |-> EMPTY],        \* session.get raises
      [kind |-> "malformed",    abstract |-> EMPTY] }       \* 200, json() raises

(* the outcome of one lookup: what the client returns (None or the         *)
(* abstract of the object), the sleeps it made, the requests it sent and   *)
(* whether an exception left the method                                    *)
Returned(work, slept) ==
    [work |-> work, slept |-> slept, requests |-> 1, raised |-> FALSE]

Raised(slept) ==
    [work |-> NULL, slept |-> slept, requests |-> 1, raised |-> TRUE]

(* get_work_by_doi without its handler for exceptions other than those of  *)
(* requests                                                                *)
get_work_by_doi_unguarded(response) ==
    IF response.kind = "not_found"
    THEN Returned(NULL, <<"request_delay">>)
    ELSE IF response.kind \in {"rate_limited", "timeout"}
    THEN Returned(NULL, <<"request_delay">>)
    ELSE IF response.kind = "malformed"
    THEN Raised(<<"request_delay">>)
    ELSE Returned(response.abstract, <<"request_delay">>)

(* OpenAlexClient.get_work_by_doi: 404 returns None; 429 makes             *)
(* raise_for_status raise HTTPError and a timeout makes session.get raise, *)
(* both caught as RequestException; a body that is not JSON makes json()   *)
(* raise ValueError, caught as Exception                                   *)
get_work_by_doi(response) ==
    IF response.kind = "not_found"
    THEN Returned(NULL, <<"request_delay">>)
    ELSE IF response.kind \in {"rate_limited", "timeout"}
    THEN Returned(NULL, <<"request_delay">>)
    ELSE IF response.kind = "malformed"
    THEN Returned(NULL, <<"request_delay">>)
    ELSE Returned(response.abstract, <<"request_delay">>)

(* SemanticScholarClient.get_paper_by_doi: as above, but 429 is tested     *)
(* before raise_for_status and sleeps five seconds before returning None   *)
get_paper_by_doi(response) ==
    IF response.kind = "not_found"
    THEN Returned(NULL, <<"request_delay">>)
    ELSE IF response.kind = "rate_limited"
    THEN Returned(NULL, <<"request_delay", "rate_limit_wait">>)
    ELSE IF response.kind \in {"timeout", "malformed"}
    THEN Returned(NULL, <<"request_delay">>)
    ELSE Returned(response.abstract, <<"request_delay">>)

lookup(provider, response) ==
    IF provider = "openalex"
    THEN get_work_by_doi(response)
    ELSE get_paper_by_doi(response)

(* the orders in which a loop may go through the selected rows *)
Orders(selected) ==
    {order \in [1..Cardinality(selected) -> selected] :
        Range(order) = selected}

(* the lookups a batch loop makes: one for each selected row in turn, the  *)
(* loop has no handler of its own so an exception leaving the client ends  *)
(* it                                                                      *)
batch_lookups(provider, order, responses) ==
    LET all == [k \in 1..Len(order) |-> lookup(provider, responses[order[k]])]
        raising == {k \in 1..Len(order) : all[k].raised}
    IN  IF raising = {} THEN all ELSE SubSeq(all, 1, SetMin(raising))

(* the rows whose lookup returned to the loop, and what it returned *)
batch_returned(order, lookups) ==
    {order[k] : k \in {j \in 1..Len(lookups) : ~lookups[j].raised}}

batch_works(order, lookups) ==
    [id \in batch_returned(order, lookups) |->
        lookups[CHOOSE k \in 1..Len(lookups) : order[k] = id].work]

(* what the scraper is left with for one URL: get_abstract returns a text  *)
(* of SCRAPE_MIN characters or more, or None                               *)
SCRAPE_MIN == 100
SCRAPED == [i \in 1..SCRAPE_MIN |-> "s"]
ScraperReplies == {NULL, SCRAPED}

(* the WHERE clause of fetch_abstracts_by_scraping *)
ScrapeEligible(row) ==
    /\ NullOrShort(row.abstract)
    /\ row.url # NULL /\ row.url # EMPTY

scraping_select(store, limit) ==
    Limited({i \in 1..Len(store) : ScrapeEligible(store[i])}, limit)

(* the body of the loop of fetch_abstracts_by_scraping *)
scraping_step(store, id, abstract) ==
    IF ~Truthy(store[id].url)
    THEN store
    ELSE IF abstract # NULL /\ Truthy(abstract)
            /\ Len(abstract) >= MIN_ABSTRACT_LEN
    THEN update_article_abstract(store, id, abstract, NULL, NULL)
    ELSE store

scraping_loop(store, todo, abstracts) ==
    [i \in 1..Len(store) |->
        IF i \in todo
        THEN scraping_step(store, i, abstracts[i])[i]
        ELSE store[i]]

(* the record of the last operation called *)
Called(op, order, responses, lookups, before) ==
    <<[op |-> op, order |-> order, responses |-> responses,
       lookups |-> lookups, before |-> before]>>

(* fetch_missing_abstracts(db, openalex, limit, translate, summarizer);    *)
(* translate stands for "translate and summarizer"                        *)
OpFetchMissing ==
    /\ sel = <<>>
    /\ \E translate \in BOOLEAN,
          selected \in get_articles_without_abstract(articles, ABSTRACT_LIMIT) :
       \E order \in Orders(selected),
          responses \in [selected -> HTTPResponses],
          reply \in IF translate THEN LLMReplies ELSE {NoReply} :
          LET lookups == batch_lookups("openalex", order, responses)
              todo == batch_returned(order, lookups)
          IN  /\ articles' = fetch_missing_loop(articles, todo,
                                 batch_works(order, lookups), translate,
                                 priority_keywords, [id \in todo |-> reply])
              /\ sel' = Called(IF translate THEN "openalex_translate"
                                            ELSE "openalex",
                               order, responses, lookups, articles)
    /\ UNCHANGED <<journals, pc, run, runs_done, last_run, oa_log, ss_log,
                   llm_log, responded, cmds_done, last_cmd, priority_keywords,
                   cp_in, cp_out, cp_again, opml, feeds, fetched>>

(* fetch_abstracts_from_semantic_scholar(db, limit) *)
OpSemanticScholar ==
    /\ sel = <<>>
    /\ \E selected \in semantic_scholar_select(articles, SS_LIMIT) :
       \E order \in Orders(selected),
          responses \in [selected -> HTTPResponses] :
          LET lookups == batch_lookups("semantic_scholar", order, responses)
              todo == batch_returned(order, lookups)
          IN  /\ articles' = semantic_scholar_loop(articles, todo,
                                 batch_works(order, lookups))
              /\ sel' = Called("semantic_scholar", order, responses, lookups,
                               articles)
    /\ UNCHANGED <<journals, pc, run, runs_done, last_run, oa_log, ss_log,
                   llm_log, responded, cmds_done, last_cmd, priority_keywords,
                   cp_in, cp_out, cp_again, opml, feeds, fetched>>

(* fetch_abstracts_by_scraping(db, limit) *)
OpScraping ==
    /\ sel = <<>>
    /\ \E selected \in scraping_select(articles, SS_LIMIT) :
       \E order \in Orders(selected),
          abstracts \in [selected -> ScraperReplies] :
          /\ articles' = scraping_loop(articles, selected, abstracts)
          /\ sel' = Called("scraping", order, abstracts, <<>>, articles)
    /\ UNCHANGED <<journals, pc, run, runs_done, last_run, oa_log, ss_log,
                   llm_log, responded, cmds_done, last_cmd, priority_keywords,
                   cp_in, cp_out, cp_again, opml, feeds, fetched>>

(* recheck_priorities(db, summarizer) *)
OpRecheck ==
    /\ sel = <<>>
    /\ articles' = recheck_priorities(articles, priority_keywords)
    /\ sel' = Called("recheck", <<>>, <<>>, <<>>, articles)
    /\ UNCHANGED <<journals, pc, run, runs_done, last_run, oa_log, ss_log,
                   llm_log, responded, cmds_done, last_cmd, priority_keywords,
                   cp_in, cp_out, cp_again, opml, feeds, fetched>>

(* translate_priority_articles(db, summarizer, priorities) *)
OpTranslate ==
    /\ sel = <<>>
    /\ \E priorities \in {{"high"}, {"high", "medium"}},
          reply \in LLMReplies :
          LET selected == translate_select(articles, priorities)
          IN  /\ articles' = translate_loop(articles, selected,
                                 priority_keywords,
                                 [id \in selected |-> reply])
              /\ sel' = Called("translate", <<>>, <<>>, <<>>, articles)
    /\ UNCHANGED <<journals, pc, run, runs_done, last_run, oa_log, ss_log,
                   llm_log, responded, cmds_done, last_cmd, priority_keywords,
                   cp_in, cp_out, cp_again, opml, feeds, fetched>>

(* Database.insert_article(article) for a classified feed entry *)
OpInsert ==
    /\ sel = <<>>
    /\ \E position \in 1..(Len(articles) + 1) :
          LET entry == [title |-> <<"x">>, url |-> Pad(position, "u"),
                        abstract |-> LONG_HIGH, doi |-> <<"d">>,
                        journal_name |-> "J1"]
              classified == classify_collected(<<entry>>, priority_keywords)[1]
          IN  /\ articles' = insert_article(articles,
                                 ("journal_id" :> 1) @@ classified, 1).store
              /\ sel' = Called("insert", <<>>, <<>>, <<>>, articles)
    /\ UNCHANGED <<journals, pc, run, runs_done, last_run, oa_log, ss_log,
                   llm_log, responded, cmds_done, last_cmd, priority_keywords,
                   cp_in, cp_out, cp_again, opml, feeds, fetched>>

InitOps ==
    /\ articles \in OpsStores
    /\ journals = <<"J1">>
    /\ pc = "idle"
    /\ run = IdleRun
    /\ runs_done = 0
    /\ last_run = NoRun
    /\ oa_log = NoLog
    /\ ss_log = NoLog
    /\ llm_log = NoLog
    /\ responded = {}
    /\ cmds_done = 0
    /\ last_cmd = NoCmd
    /\ priority_keywords = DefaultKeywords
    /\ cp_in = <<>>
    /\ cp_out = <<>>
    /\ cp_again = <<>>
    /\ sel = <<>>
    /\ opml = NoDocument
    /\ feeds = <<>>
    /\ fetched = <<>>

NextOps ==
    \/ OpFetchMissing
    \/ OpSemanticScholar
    \/ OpScraping
    \/ OpRecheck
    \/ OpTranslate
    \/ OpInsert

SpecOps == InitOps /\ [][NextOps]_vars

----------------------------------------------------------------------------
(* Properties of the enrichment operations *)

LastOp == IF sel = <<>> THEN "none" ELSE sel[1].op

ProviderOps == {"openalex", "openalex_translate", "semantic_scholar"}

EnrichmentOps == ProviderOps \cup {"scraping"}

ChangedAbstracts ==
    {id \in DOMAIN sel[1].before :
        articles[id].abstract # sel[1].before[id].abstract}

(* C22: every enrichment operation (OpenAlex, Semantic Scholar, web        *)
(* scraping) changes the abstract only of rows that, when selected, had a  *)
(* non-empty DOI and an abstract that was null, empty or shorter than 50   *)
(* characters.                                                             *)
C22_EnrichmentOnlyDoiWithoutAbstract ==
    LastOp \in EnrichmentOps =>
        \A id \in ChangedAbstracts :
            /\ HasDoi(sel[1].before[id])
            /\ NullOrShort(sel[1].before[id].abstract)

(* C23: at either provider a 429 response to a lookup makes the client     *)
(* sleep the extended wait, return nothing for that article and send no    *)
(* second request, and the loop goes on to the next article.               *)
C23_RateLimitBacksOff ==
    LastOp \in ProviderOps =>
        \A k \in 1..Len(sel[1].lookups) :
            sel[1].responses[sel[1].order[k]].kind = "rate_limited" =>
                /\ "rate_limit_wait" \in Range(sel[1].lookups[k].slept)
                /\ sel[1].lookups[k].work = NULL
                /\ sel[1].lookups[k].requests = 1
                /\ (k < Len(sel[1].order) => k < Len(sel[1].lookups))

(* C24: in the batch loops of the two providers a lookup that fails        *)
(* (timeout, HTTP error, malformed response, not found) leaves the row of  *)
(* its article as it was, and every selected article is looked up.         *)
C24_FailureSkipsOnlyItsArticle ==
    LastOp \in ProviderOps =>
        /\ Len(sel[1].lookups) = Len(sel[1].order)
        /\ \A id \in Range(sel[1].order) :
              sel[1].responses[id].kind # "ok" =>
                  articles[id] = sel[1].before[id]

C24_Witness ==
    /\ LastOp \in {"openalex", "openalex_translate"}
    /\ Len(sel[1].order) >= 2
    /\ sel[1].responses[sel[1].order[1]].kind = "malformed"
    /\ sel[1].responses[sel[1].order[2]].kind = "ok"
    /\ articles[sel[1].order[1]] = sel[1].before[sel[1].order[1]]
    /\ articles[sel[1].order[2]].abstract = LONG_PLAIN
    /\ sel[1].before[sel[1].order[2]].abstract # LONG_PLAIN

====
